---- MODULE Spec2Model ----
(***************************************************************************)
(* Model of the spex package resolution and import engine                  *)
(* (hekonsek/spex): identifier parsing, mirror cache, ignore patterns and  *)
(* the import copier.                                                      *)
(*                                                                         *)
(* Text is modelled as a sequence of one-character strings, so that        *)
(* trimming, splitting, case folding and pattern tests are computed on the *)
(* characters the way the code computes them.                              *)
(***************************************************************************)
EXTENDS Integers, Sequences, FiniteSets, TLC

VARIABLES
    raw,            \* parser input: rawPackageId
    parsed,         \* result of parsePackageId(raw), or NotParsed
    catalogParsed,  \* result of parseCatalogPackageIdentifier(raw), or NotParsed
    targetPath,     \* BuildService.run: targetPath derived from parsed
    mirrorPath,     \* getCachedPackageRepositoryMirrorPath(parsed)
    triple,         \* (host, namespace, name) whose identifier forms are parsed
    formResults,    \* form -> result of parsePackageId on that form of triple
    buildFile,      \* the project's .spex/spex.yml
    remote,         \* clone URL -> content of the remote repository
    remoteVersion,  \* clone URL -> number of pushes the remote has received
    mirrors,        \* mirror path -> the cached mirror at that path
    targets,        \* import target path -> the tree at that path
    tmpDirs,        \* the directories that exist under os.tmpdir()
    pc,             \* position of BuildService.run
    runs,           \* number of runs started
    packageIds,     \* BuildService.run: packageIds
    index,          \* BuildService.run: position of the for loop in packageIds
    importedPackages, \* BuildService.run: importedPackages
    events,         \* listener callbacks of the current run, in order
    mirrorCall,     \* the mirror call in progress: what it found and did
    prevCall,       \* the mirror call completed before lastCall
    lastCall,       \* the mirror call completed last
    temporaryBasePath, \* clonePackageToPath: temporaryBasePath
    checkout,       \* content of the temporary clone
    exportIgnorePatterns, \* clonePackageToPath: exportIgnorePatterns
    targetBefore,   \* the tree at targetPath when clonePackageToPath was called
    targetsAtPackageStart, \* targets when the loop body began for this package
    thrown,         \* the error thrown inside the try block of clonePackageToPath
    catalogIndexFile, \* spex-catalog-index.yml in the catalog index directory
    discoverCall,   \* the call of CatalogDiscoverService made last
    discoverResult, \* the state that call returned, or NoState
    discoverEvents, \* listener callbacks of that call, in order
    discoverError,  \* the error that call threw, or NoError
    catalogSpecFile, \* spex-catalog.yml in the catalog directory
    catalogPc,      \* position of CatalogBuildService.run
    catalogPackages, \* CatalogBuildService.run: packages
    catalogPosition, \* CatalogBuildService.run: position of the for loop in packages
    catalogEvents,  \* listener callbacks of the catalog build, in order
    catalogError,   \* the error CatalogBuildService.run ended with
    harvested,      \* the readRepositoryMetadata calls made, in order
    project,        \* the directory DefaultValidationService.validate is given
    validation,     \* what the last call of validate did, or NoValidation
    racePc,         \* concurrent invocations: the step each one is in
    raceRepository, \* concurrent invocations: the repository each one imports
    raceCheckout,   \* concurrent invocations: what each one checked out last
    raceOverlaps,   \* the kinds of overlap between invocations seen so far
    lastError       \* the error BuildService.run ended with

parseVars == <<raw, parsed, catalogParsed, targetPath, mirrorPath>>
formVars == <<triple, formResults>>
worldVars == <<buildFile, remote, remoteVersion, mirrors, targets, tmpDirs>>
runVars == <<pc, runs, packageIds, index, importedPackages, events, lastError>>
mirrorCallVars == <<mirrorCall, prevCall, lastCall>>
importVars ==
    <<temporaryBasePath, checkout, exportIgnorePatterns, targetBefore,
      targetsAtPackageStart, thrown>>
buildVars == <<worldVars, runVars, mirrorCallVars, importVars>>
discoverVars ==
    <<catalogIndexFile, discoverCall, discoverResult, discoverEvents, discoverError>>
catalogVars ==
    <<catalogSpecFile, catalogPc, catalogPackages, catalogPosition, catalogEvents,
      catalogError, harvested>>
validateVars == <<project, validation>>
raceVars == <<racePc, raceRepository, raceCheckout, raceOverlaps>>
serviceVars == <<discoverVars, catalogVars, validateVars, raceVars>>
vars == <<parseVars, formVars, buildVars, serviceVars>>

----------------------------------------------------------------------------
(* Characters and text helpers (JavaScript String / RegExp primitives)      *)

UpperChars == <<"A","B","C","D","E","F","G","H","I","J","K","L","M",
                "N","O","P","Q","R","S","T","U","V","W","X","Y","Z">>
LowerChars == <<"a","b","c","d","e","f","g","h","i","j","k","l","m",
                "n","o","p","q","r","s","t","u","v","w","x","y","z">>
DigitChars == {"0","1","2","3","4","5","6","7","8","9"}
AlphaChars == {UpperChars[i] : i \in DOMAIN UpperChars}
                  \cup {LowerChars[i] : i \in DOMAIN LowerChars}

\* String.prototype.trim: the white space it removes (the part in the alphabet)
Whitespace == {" ", "\t", "\n", "\r"}

ToLowerChar(c) ==
    IF \E i \in DOMAIN UpperChars : UpperChars[i] = c
    THEN LowerChars[CHOOSE i \in DOMAIN UpperChars : UpperChars[i] = c]
    ELSE c

ToLower(s) == [i \in 1..Len(s) |-> ToLowerChar(s[i])]

StartsWith(s, p) == Len(s) >= Len(p) /\ SubSeq(s, 1, Len(p)) = p

EndsWith(s, p) == Len(s) >= Len(p) /\ SubSeq(s, Len(s) - Len(p) + 1, Len(s)) = p

Includes(s, p) == \E i \in 1..(Len(s) - Len(p) + 1) : SubSeq(s, i, i + Len(p) - 1) = p

\* the text without its leading characters that are in set cs
DropLeading(s, cs) ==
    LET keep == {i \in 1..Len(s) : s[i] \notin cs}
    IN  IF keep = {} THEN <<>>
        ELSE SubSeq(s, CHOOSE i \in keep : \A j \in keep : i <= j, Len(s))

\* the text without its trailing characters that are in set cs
DropTrailing(s, cs) ==
    LET keep == {i \in 1..Len(s) : s[i] \notin cs}
    IN  IF keep = {} THEN <<>>
        ELSE SubSeq(s, 1, CHOOSE i \in keep : \A j \in keep : i >= j)

\* String.prototype.trim
Trim(s) == DropTrailing(DropLeading(s, Whitespace), Whitespace)

\* index of the first occurrence of character c in s, 0 when there is none
IndexOf(s, c) ==
    LET at == {i \in 1..Len(s) : s[i] = c}
    IN  IF at = {} THEN 0 ELSE CHOOSE i \in at : \A j \in at : i <= j

\* String.prototype.split on a one-character separator
RECURSIVE Split(_, _)
Split(s, c) ==
    LET i == IndexOf(s, c)
    IN  IF i = 0 THEN <<s>>
        ELSE <<SubSeq(s, 1, i - 1)>> \o Split(SubSeq(s, i + 1, Len(s)), c)

\* Array.prototype.filter(Boolean) on an array of strings
FilterBoolean(segs) == SelectSeq(segs, LAMBDA x : x /= <<>>)

\* Array.prototype.join on a one-character separator
RECURSIVE Join(_, _)
Join(segs, c) ==
    IF segs = <<>> THEN <<>>
    ELSE IF Len(segs) = 1 THEN segs[1]
    ELSE segs[1] \o <<c>> \o Join(Tail(segs), c)

Slash == "/"
DotGit == <<".", "g", "i", "t">>
HttpsPrefix == <<"h", "t", "t", "p", "s", ":", "/", "/">>
HttpPrefix == <<"h", "t", "t", "p", ":", "/", "/">>
SchemeMark == <<":", "/", "/">>

\* const defaultPackageHost = "github.com"
defaultPackageHost == <<"g", "i", "t", "h", "u", "b", ".", "c", "o", "m">>

----------------------------------------------------------------------------
(* new URL(value): the WHATWG basic URL parser without a base URL, for     *)
(* text over letters, digits-free host labels, '.', '-', '_', ';', ' ',    *)
(* '/' and ':' (no '?', '#', '\', '@', '[', '%' in the input).             *)

SpecialSchemes == { <<"h","t","t","p">>, <<"h","t","t","p","s">>, <<"f","t","p">>,
                    <<"w","s">>, <<"w","s","s">> }

URLFailure == [ok |-> FALSE, hostname |-> <<>>, pathname |-> <<>>]

\* scheme start state / scheme state: ASCII alpha, then alphanumeric, +, -, .
IsValidScheme(s) ==
    /\ Len(s) > 0
    /\ s[1] \in AlphaChars
    /\ \A i \in 1..Len(s) : s[i] \in AlphaChars \cup DigitChars \cup {"+", "-", "."}

\* UTF-8 percent-encode with the path percent-encode set: ' ' becomes %20
PercentEncodeChar(c) == IF c = " " THEN <<"%", "2", "0">> ELSE <<c>>

RECURSIVE PercentEncodePath(_)
PercentEncodePath(s) ==
    IF s = <<>> THEN <<>> ELSE PercentEncodeChar(Head(s)) \o PercentEncodePath(Tail(s))

\* shorten a path: remove its last segment, if any
ShortenPath(path) == IF path = <<>> THEN <<>> ELSE SubSeq(path, 1, Len(path) - 1)

\* path state: each segment ends at '/' or at the end of the input
RECURSIVE URLPathState(_, _, _)
URLPathState(tokens, i, path) ==
    IF i > Len(tokens) THEN path
    ELSE LET buffer == tokens[i]
             atEnd == (i = Len(tokens))
             next ==
                 IF buffer = <<".", ".">>
                 THEN IF atEnd THEN Append(ShortenPath(path), <<>>) ELSE ShortenPath(path)
                 ELSE IF buffer = <<".">>
                 THEN IF atEnd THEN Append(path, <<>>) ELSE path
                 ELSE Append(path, PercentEncodePath(buffer))
         IN  URLPathState(tokens, i + 1, next)

\* path start state and path state, then the pathname getter
URLPathname(rest) ==
    LET body == IF rest /= <<>> /\ Head(rest) = Slash THEN Tail(rest) ELSE rest
        path == URLPathState(Split(body, Slash), 1, <<>>)
    IN  <<Slash>> \o Join(path, Slash)

\* host state and port state: the host and the port around the first ':'
URLHostPort(authority, after, special, colon) ==
    LET host == IF colon = 0 THEN authority ELSE SubSeq(authority, 1, colon - 1)
        port == IF colon = 0 THEN <<>> ELSE SubSeq(authority, colon + 1, Len(authority))
    IN  IF (special \/ colon /= 0) /\ host = <<>> THEN URLFailure
        ELSE IF \E i \in 1..Len(port) : port[i] \notin DigitChars THEN URLFailure
        ELSE IF \E i \in 1..Len(host) : host[i] = " " THEN URLFailure
        ELSE [ok |-> TRUE,
              hostname |-> IF special THEN ToLower(host) ELSE host,
              pathname |-> IF special \/ after /= <<>> THEN URLPathname(after) ELSE <<>>]

\* authority state: the authority ends at the first '/' (at cut) or at the end
URLAuthorityAt(rest, special, cut) ==
    LET authority == IF cut = 0 THEN rest ELSE SubSeq(rest, 1, cut - 1)
        after == IF cut = 0 THEN <<>> ELSE SubSeq(rest, cut, Len(rest))
    IN  URLHostPort(authority, after, special, IndexOf(authority, ":"))

\* authority state, host state, port state and the host parser
URLAuthority(rest, special) == URLAuthorityAt(rest, special, IndexOf(rest, Slash))

\* scheme state and what follows it; colon is the place of the first ':'
ParseURLAt(s, colon) ==
    LET scheme == IF colon = 0 THEN <<>> ELSE ToLower(SubSeq(s, 1, colon - 1))
        rest == IF colon = 0 THEN <<>> ELSE SubSeq(s, colon + 1, Len(s))
    IN  IF colon = 0 \/ ~IsValidScheme(scheme) THEN URLFailure
        ELSE IF scheme \in SpecialSchemes
        THEN \* special authority slashes / ignore slashes states
             URLAuthority(DropLeading(rest, {Slash}), TRUE)
        ELSE IF StartsWith(rest, <<Slash, Slash>>)
        THEN URLAuthority(SubSeq(rest, 3, Len(rest)), FALSE)
        ELSE IF StartsWith(rest, <<Slash>>)
        THEN [ok |-> TRUE, hostname |-> <<>>, pathname |-> URLPathname(rest)]
        ELSE [ok |-> TRUE, hostname |-> <<>>, pathname |-> rest]

\* the input without leading and trailing C0 control or space
ParseTrimmedURL(s) == ParseURLAt(s, IndexOf(s, ":"))

\* new URL(input): the basic URL parser
ParseURL(input) == ParseTrimmedURL(DropTrailing(DropLeading(input, Whitespace), Whitespace))

----------------------------------------------------------------------------
(* Identifier parser of the build pipeline                                  *)

\* /^[A-Za-z0-9._-]+$/
SafeChars == AlphaChars \cup DigitChars \cup {".", "_", "-"}

\* the test with the anchors of the pattern left out: /[A-Za-z0-9._-]+/
IsSafePathSegment_Unanchored(value) == \E i \in 1..Len(value) : value[i] \in SafeChars

\* the test of assertSafePathSegment: TRUE when no error is thrown
IsSafePathSegment(value) ==
    /\ Len(value) > 0
    /\ \A i \in 1..Len(value) : value[i] \in SafeChars

\* name.replace(/\.git$/i, "")
StripDotGit(name) ==
    IF EndsWith(ToLower(name), DotGit) THEN SubSeq(name, 1, Len(name) - Len(DotGit)) ELSE name

\* /^https?:\/\//i.test(value)
IsHttpUrl(value) ==
    StartsWith(ToLower(value), HttpPrefix) \/ StartsWith(ToLower(value), HttpsPrefix)

Extracted(h, ns, n) ==
    [ok |-> TRUE, host |-> h, namespace |-> ns, name |-> n, error |-> "none"]

NotExtracted(msg) ==
    [ok |-> FALSE, host |-> <<>>, namespace |-> <<>>, name |-> <<>>, error |-> msg]

\* the URL branch, after new URL(value) did not throw
ExtractFromUrlPath(hostname, pathSegments) ==
    IF Len(pathSegments) /= 2
    THEN NotExtracted("Package URL must contain namespace and name")
    ELSE Extracted(hostname, pathSegments[1], StripDotGit(pathSegments[2]))

\* the URL branch: try { new URL(value) } catch, then the path segments
ExtractFromUrl(url) ==
    IF ~url.ok THEN NotExtracted("Invalid URL")
    ELSE ExtractFromUrlPath(url.hostname, FilterBoolean(Split(url.pathname, Slash)))

\* the branches of two and of three '/'-separated segments
ExtractFromSegments(pathSegments) ==
    IF Len(pathSegments) = 2
    THEN Extracted(defaultPackageHost, pathSegments[1], StripDotGit(pathSegments[2]))
    ELSE IF Len(pathSegments) = 3
    THEN IF ~Includes(pathSegments[1], <<".">>)
         THEN NotExtracted("Unsupported package identifier format")
         ELSE Extracted(pathSegments[1], pathSegments[2], StripDotGit(pathSegments[3]))
    ELSE NotExtracted("Unsupported package identifier format")

\* value is the identifier, trimmed and without trailing slashes
ExtractFromValue(value) ==
    IF value = <<>> THEN NotExtracted("Package identifier must not be empty.")
    ELSE IF IsHttpUrl(value) THEN ExtractFromUrl(ParseURL(value))
    ELSE ExtractFromSegments(FilterBoolean(Split(value, Slash)))

\* parsePackageId up to and including the strip of a trailing .git:
\* the host, namespace and name it extracts, or the error it throws
ExtractPackageId(rawPackageId) == ExtractFromValue(DropTrailing(Trim(rawPackageId), {Slash}))

\* `https://${host}/${namespace}/${name}.git`
CloneUrlOf(h, ns, n) ==
    HttpsPrefix \o h \o <<Slash>> \o ns \o <<Slash>> \o n \o DotGit

ParseError(rawPackageId, msg) ==
    [ok |-> FALSE, raw |-> rawPackageId, host |-> <<>>, namespace |-> <<>>,
     name |-> <<>>, cloneUrl |-> <<>>, error |-> msg]

\* the three assertSafePathSegment calls, in the order of the code:
\* the message of the first one that throws, "none" when all pass
SafeSegmentsError(h, ns, n) ==
    IF ~IsSafePathSegment(h) THEN "Invalid package host in package identifier"
    ELSE IF ~IsSafePathSegment(ns) THEN "Invalid package namespace in package identifier"
    ELSE IF ~IsSafePathSegment(n) THEN "Invalid package name in package identifier"
    ELSE "none"

\* the segments e that were extracted, checked and made into the result
CheckedPackageId(rawPackageId, e, segmentsError) ==
    IF ~e.ok THEN ParseError(rawPackageId, e.error)
    ELSE IF segmentsError /= "none" THEN ParseError(rawPackageId, segmentsError)
    ELSE [ok |-> TRUE, raw |-> rawPackageId, host |-> e.host,
          namespace |-> e.namespace, name |-> e.name,
          cloneUrl |-> CloneUrlOf(e.host, e.namespace, e.name), error |-> "none"]

CheckPackageId(rawPackageId, e) ==
    CheckedPackageId(rawPackageId, e, SafeSegmentsError(e.host, e.namespace, e.name))

parsePackageId(rawPackageId) == CheckPackageId(rawPackageId, ExtractPackageId(rawPackageId))

----------------------------------------------------------------------------
(* Identifier parser of the catalog pipeline                                *)

CatalogParseError(msg) ==
    [ok |-> FALSE, host |-> <<>>, namespace |-> <<>>, name |-> <<>>,
     cloneUrl |-> <<>>, error |-> msg]

\* the URL branch, after new URL(value) did not throw: the first two
\* path segments are taken, whatever follows them
CatalogExtractFromUrlPath(hostname, pathSegments) ==
    IF Len(pathSegments) < 2
    THEN NotExtracted("Package URL must contain namespace and name")
    ELSE Extracted(hostname, pathSegments[1], StripDotGit(pathSegments[2]))

CatalogExtractFromUrl(parsedUrl) ==
    IF ~parsedUrl.ok THEN NotExtracted("Unsupported package URL format")
    ELSE CatalogExtractFromUrlPath(parsedUrl.hostname,
                                   FilterBoolean(Split(parsedUrl.pathname, Slash)))

\* value is the identifier, trimmed
CatalogExtractFromValue(value) ==
    IF value = <<>>
    THEN NotExtracted("Catalog packages list must not contain empty values.")
    ELSE IF Includes(value, SchemeMark) THEN CatalogExtractFromUrl(ParseURL(value))
    ELSE ExtractFromSegments(FilterBoolean(Split(value, Slash)))

\* the pattern tests on the extracted segments, and the result
CatalogCheckedIdentifier(e) ==
    IF ~e.ok THEN CatalogParseError(e.error)
    ELSE IF ~IsSafePathSegment(e.host)
    THEN CatalogParseError("Unsupported package host format")
    ELSE IF ~IsSafePathSegment(e.namespace)
    THEN CatalogParseError("Unsupported package namespace format")
    ELSE IF ~IsSafePathSegment(e.name)
    THEN CatalogParseError("Unsupported package name format")
    ELSE [ok |-> TRUE, host |-> e.host, namespace |-> e.namespace, name |-> e.name,
          cloneUrl |-> CloneUrlOf(e.host, e.namespace, e.name), error |-> "none"]

parseCatalogPackageIdentifier(rawPackageId) ==
    CatalogCheckedIdentifier(CatalogExtractFromValue(Trim(rawPackageId)))

----------------------------------------------------------------------------
(* Paths: a path is the sequence of its components below the file system    *)
(* root                                                                     *)

\* path.resolve(base, ...components): '.' is dropped, '..' removes the
\* component before it, and nothing is removed above the root
RECURSIVE Resolve(_, _)
Resolve(base, components) ==
    IF components = <<>> THEN base
    ELSE LET c == Head(components)
             next == IF c = <<".">> THEN base
                     ELSE IF c = <<".", ".">> THEN ShortenPath(base)
                     ELSE Append(base, c)
         IN  Resolve(next, Tail(components))

\* input.cwd: the project directory /w/prj
Cwd == << <<"w">>, <<"p", "r", "j">> >>

\* os.homedir(): /h
HomeDir == << <<"h">> >>

DotSpexDir == <<".", "s", "p", "e", "x">>
ImportsDir == <<"i", "m", "p", "o", "r", "t", "s">>

\* resolve(cwd, ".spex", "imports")
ImportsRoot == Resolve(Cwd, <<DotSpexDir, ImportsDir>>)

\* resolve(homedir(), ".cache", "spex", "packages")
getPackagesCacheDirectory ==
    Resolve(HomeDir, << <<".", "c", "a", "c", "h", "e">>, <<"s", "p", "e", "x">>,
                        <<"p", "a", "c", "k", "a", "g", "e", "s">> >>)

getCachedPackageRepositoryMirrorPath(repository) ==
    Resolve(getPackagesCacheDirectory,
            <<repository.host, repository.namespace, repository.name \o DotGit>>)

\* BuildService.run: resolve(cwd, ".spex", "imports", host, namespace, name)
TargetPathOf(parsedPackage) ==
    Resolve(Cwd, <<DotSpexDir, ImportsDir, parsedPackage.host, parsedPackage.namespace,
                   parsedPackage.name>>)

IsPrefixPath(p, q) == Len(p) <= Len(q) /\ SubSeq(q, 1, Len(p)) = p

----------------------------------------------------------------------------
(* Ignore patterns: path.replaceAll / Minimatch(pattern, { dot: true }),    *)
(* for patterns of literal characters, '*', '?' and '**' parts (no '!',     *)
(* '#', braces, brackets or extglobs)                                       *)

\* path.replaceAll("\\", "/").replace(/^\/+/, "").replace(/\/+$/, "")
normalizeGlobPath(path) ==
    LET slashed == [i \in 1..Len(path) |-> IF path[i] = "\\" THEN Slash ELSE path[i]]
    IN  DropTrailing(DropLeading(slashed, {Slash}), {Slash})

\* the pattern part '**'
Globstar == <<"**">>

\* Minimatch: a pattern is split at its slashes; a part '**' is a globstar
MinimatchParts(pattern) ==
    LET parts == FilterBoolean(Split(pattern, Slash))
    IN  [i \in 1..Len(parts) |-> IF parts[i] = <<"*", "*">> THEN Globstar ELSE parts[i]]

\* patterns.map(trim).filter(Boolean).map(p => new Minimatch(normalizeGlobPath(p)))
compileIgnorePatterns(patterns) ==
    LET kept == SelectSeq([i \in 1..Len(patterns) |-> Trim(patterns[i])],
                          LAMBDA x : x /= <<>>)
    IN  [i \in 1..Len(kept) |-> MinimatchParts(normalizeGlobPath(kept[i]))]

\* one pattern part against one path part: '*' is any run of characters,
\* '?' is one character; with dot: true a leading '.' is matched like any
\* other character, but the names '.' and '..' match no pattern with magic
\* the pattern positions reachable from those of S through '*' matching nothing
StarClosure(p, S) ==
    { j \in 0..Len(p) : \E i \in S : i <= j /\ \A k \in (i + 1)..j : p[k] = "*" }

\* the pattern positions reachable from those of S by consuming character c
WildcardStep(p, S, c) ==
    StarClosure(p, { i \in S : i >= 1 /\ p[i] = "*" }
                      \cup { i + 1 : i \in { k \in S : k < Len(p) /\ p[k + 1] /= "*"
                                                        /\ p[k + 1] \in {"?", c} } })

RECURSIVE WildcardRun(_, _, _)
WildcardRun(p, S, f) ==
    IF f = <<>> THEN S ELSE WildcardRun(p, WildcardStep(p, S, Head(f)), Tail(f))

\* the regular expression of one pattern part, run over the whole name
WildcardMatch(p, f) == Len(p) \in WildcardRun(p, StarClosure(p, {0}), f)

HasMagic(p) == \E i \in 1..Len(p) : p[i] \in {"*", "?"}

PartMatch(p, f) ==
    IF HasMagic(p)
    THEN f /= <<>> /\ f \notin {<<".">>, <<".", ".">>} /\ WildcardMatch(p, f)
    ELSE p = f

\* Minimatch.matchOne(file, pattern, partial)
RECURSIVE matchOne(_, _, _)
matchOne(file, pattern, partial) ==
    IF file = <<>> /\ pattern = <<>> THEN TRUE
    ELSE IF file = <<>> THEN partial
    ELSE IF pattern = <<>> THEN file = << <<>> >>
    ELSE IF Head(pattern) = Globstar
    THEN IF Len(pattern) = 1
         THEN \A i \in 1..Len(file) : file[i] \notin {<<".">>, <<".", ".">>}
         ELSE LET \* the parts the globstar may swallow before the rest is tried
                  canSwallow(n) ==
                      \A i \in 1..n : file[i] \notin {<<".">>, <<".", ".">>}
              IN  \/ \E n \in 0..(Len(file) - 1) :
                         /\ canSwallow(n)
                         /\ matchOne(SubSeq(file, n + 1, Len(file)), Tail(pattern), partial)
                  \/ partial /\ canSwallow(Len(file))
    ELSE /\ PartMatch(Head(pattern), Head(file))
         /\ matchOne(Tail(file), Tail(pattern), partial)

\* Minimatch.match(f, partial): an empty pattern matches the empty path only
MinimatchMatch(parts, path, partial) ==
    IF parts = <<>> THEN path = <<>>
    ELSE matchOne(Split(path, Slash), parts, partial)

\* only the first compiled pattern is tried
matchesAnyIgnorePattern_FirstOnly(relativePath, compiledIgnorePatterns) ==
    /\ normalizeGlobPath(relativePath) /= <<>>
    /\ compiledIgnorePatterns /= <<>>
    /\ MinimatchMatch(compiledIgnorePatterns[1], normalizeGlobPath(relativePath), FALSE)

matchesAnyIgnorePattern(relativePath, compiledIgnorePatterns) ==
    /\ normalizeGlobPath(relativePath) /= <<>>
    /\ \E i \in 1..Len(compiledIgnorePatterns) :
           MinimatchMatch(compiledIgnorePatterns[i], normalizeGlobPath(relativePath), FALSE)

matchesAnyIgnoreDirectoryPattern(relativePath, compiledIgnorePatterns) ==
    /\ normalizeGlobPath(relativePath) /= <<>>
    /\ \E i \in 1..Len(compiledIgnorePatterns) :
           \/ MinimatchMatch(compiledIgnorePatterns[i], normalizeGlobPath(relativePath), FALSE)
           \/ MinimatchMatch(compiledIgnorePatterns[i], normalizeGlobPath(relativePath), TRUE)

----------------------------------------------------------------------------
(* Directory trees and the filtered copy                                    *)
(* A tree is the set of its files and the set of its directories, each a    *)
(* path (sequence of names) below the root of the tree.                     *)

AbsentTree == [exists |-> FALSE, files |-> {}, dirs |-> {}]

EmptyTree == [exists |-> TRUE, files |-> {}, dirs |-> {}]

\* the proper ancestors of a path inside its tree
Ancestors(path) == { SubSeq(path, 1, k) : k \in 1..(Len(path) - 1) }

\* a checked-out tree: the directories are the ancestors of the files
TreeOf(files) ==
    [exists |-> TRUE, files |-> files, dirs |-> UNION { Ancestors(f) : f \in files }]

\* relative(sourcePath, sourceEntryPath)
RelativeText(path) == Join(path, Slash)

\* the filter of cp: TRUE when the entry is copied
CopyFilter(path, isDirectory, compiled) ==
    LET relativeEntryPath == normalizeGlobPath(RelativeText(path))
    IN  IF relativeEntryPath = <<>> THEN TRUE
        ELSE IF isDirectory
        THEN ~matchesAnyIgnoreDirectoryPattern(relativeEntryPath, compiled)
        ELSE ~matchesAnyIgnorePattern(relativeEntryPath, compiled)

\* cp(source, target, {recursive, filter}): an entry is reached when every
\* directory above it passed the filter, and copied when it passes too;
\* what is already in the target stays
copyPackageSpexDirectory(source, target, ignorePatterns) ==
    LET compiled == compileIgnorePatterns(ignorePatterns)
        reached(path) == \A d \in Ancestors(path) : CopyFilter(d, TRUE, compiled)
    IN  [exists |-> TRUE,
         files |-> target.files
                     \cup { f \in source.files : reached(f) /\ CopyFilter(f, FALSE, compiled) },
         dirs |-> target.dirs
                     \cup { d \in source.dirs : reached(d) /\ CopyFilter(d, TRUE, compiled) }]

----------------------------------------------------------------------------
(* The world of a build: remote repositories, the project, the cache        *)

\* names of files and directories in package trees
NameReadme == <<"r", ".", "m", "d">>
NameTopPyc == <<"t", ".", "p", "y", "c">>
NameAdr == <<"a", "d", "r">>
NameAMd == <<"a", ".", "m", "d">>
NameAPyc == <<"a", ".", "p", "y", "c">>
NameBuild == <<"b", "u", "i", "l", "d">>
NameSub == <<"s", "u", "b">>
NameOld == <<"o", "l", "d", ".", "m", "d">>

TreeFull ==
    TreeOf({ <<NameReadme>>, <<NameTopPyc>>, <<NameAdr, NameAMd>>, <<NameAdr, NameAPyc>>,
             <<NameBuild, NameAMd>>, <<NameBuild, NameSub, NameAPyc>> })

TreeSmall == TreeOf({ <<NameReadme>>, <<NameAdr, NameAMd>> })

\* what an earlier import left at a target
TreeOld == TreeOf({ <<NameOld>>, <<NameAdr, NameOld>> })

PatternPyc == <<"*", "*", "/", "*", ".", "p", "y", "c">>
PatternBuild == <<"b", "u", "i", "l", "d", "/", "*", "*">>
PatternOneFile == <<"a", "d", "r", "/", "a", ".", "m", "d">>
PatternReadme == <<"r", ".", "m", "d">>

\* a repository content: its spex directory (if any) and its .spex/spex.yml
RepoContent(spexTree, hasBuildFile, ignores) ==
    [spex |-> spexTree, hasBuildFile |-> hasBuildFile, ignores |-> ignores]

ContentPyc == RepoContent(TreeFull, TRUE, <<PatternPyc>>)
ContentBuild == RepoContent(TreeFull, TRUE, <<PatternBuild, PatternPyc>>)
ContentOneFile == RepoContent(TreeFull, TRUE, <<PatternOneFile>>)
ContentPlain == RepoContent(TreeSmall, FALSE, <<>>)
ContentNoSpex == RepoContent(AbsentTree, TRUE, <<PatternPyc>>)
NoContent == RepoContent(AbsentTree, FALSE, <<>>)

Contents == {ContentPyc, ContentBuild, ContentOneFile, ContentPlain, ContentNoSpex}

\* what a push makes of the content of a repository
ContentOrder == <<ContentPyc, ContentBuild, ContentOneFile, ContentPlain, ContentNoSpex>>

PushedContent(c) ==
    LET i == CHOOSE k \in 1..Len(ContentOrder) : ContentOrder[k] = c
    IN  ContentOrder[(i % Len(ContentOrder)) + 1]

\* package identifiers as written in build files
PkgShort == <<"a", "/", "b">>
PkgUrl == HttpsPrefix \o defaultPackageHost \o <<"/", "a", "/", "b", ".", "g", "i", "t">>
PkgHost == <<"h", ".", "c", "/", "a", "/", "b">>
PkgBad == <<"a", "/", "b", ";", "c">>

PackageLists ==
    { <<>>, <<PkgShort>>, <<PkgShort, PkgHost>>, <<PkgUrl, PkgShort>>,
      <<PkgHost, PkgBad, PkgShort>> }

\* the repositories those identifiers name
Repositories ==
    { [host |-> defaultPackageHost, namespace |-> <<"a">>, name |-> <<"b">>],
      [host |-> <<"h", ".", "c">>, namespace |-> <<"a">>, name |-> <<"b">>] }

DefaultRepoUrl == CloneUrlOf(defaultPackageHost, <<"a">>, <<"b">>)

RepoUrls == { CloneUrlOf(r.host, r.namespace, r.name) : r \in Repositories }

MirrorPaths == { getCachedPackageRepositoryMirrorPath(r) : r \in Repositories }

TargetPaths == { TargetPathOf(r) : r \in Repositories }

\* the project's build file: parseBuildFilePackages / parseBuildFileExportIgnores
BuildFiles ==
    { [exists |-> FALSE, packages |-> <<>>, ignores |-> <<>>] }
    \cup [exists : {TRUE}, packages : PackageLists, ignores : {<<PatternReadme>>}]

AbsentMirror == [state |-> "absent", origin |-> <<>>, content |-> NoContent]

\* names mkdtemp can give a directory; one exists already and is not ours
TmpNames == {"spex-import-A", "spex-import-B"}
ForeignTmpDirs == {"spex-import-A"}
NoTmp == "none"

NoError == [message |-> "none", source |-> <<>>, details |-> "none"]

\* an Error made by the code, or raised by fs / child_process
ErrorOf(message, source, details) ==
    [message |-> message, source |-> source, details |-> details]

NoCall ==
    [host |-> <<>>, namespace |-> <<>>, name |-> <<>>, cloneUrl |-> <<>>, path |-> <<>>,
     absentAtStart |-> FALSE, ops |-> <<>>, ok |-> FALSE,
     versionAtStart |-> 0, versionAtEnd |-> 0]

\* bounds of the build model
MaxRuns == 2
MaxPushes == 1

----------------------------------------------------------------------------
(* Parsing one raw identifier with both parsers                             *)

\* the longest list of '/'-separated pieces of a generated raw identifier
MaxSegments == 4

NotParsed == ParseError(<<>>, "not parsed")

CatalogNotParsed == CatalogParseError("not parsed")

RawPrefixes ==
    { <<>>, HttpsPrefix, <<"H", "T", "T", "P", ":", "/", "/">>,
      <<"f", "t", "p", ":", "/", "/">> }

RawPieces ==
    { <<"a">>, <<"H", ".", "c">>, <<".", ".">>, <<"b", ".", "g", "i", "t">>,
      <<"a", ";", "b">> }

RawSuffixes == { <<>>, <<Slash>>, <<" ">> }

RawInputs ==
    { p \o Join(pieces, Slash) \o s :
        p \in RawPrefixes,
        pieces \in UNION { [1..k -> RawPieces] : k \in 0..MaxSegments },
        s \in RawSuffixes }

\* no spex-catalog-index.yml
AbsentIndex == [exists |-> FALSE, isList |-> FALSE, items |-> <<>>]

\* no call of CatalogDiscoverService yet
\* (again: the call before was addPackage of the same identifier)
NoDiscoverCall ==
    [op |-> "none", packageId |-> <<>>, fileBefore |-> <<>>, again |-> FALSE]

\* a call that returned no CatalogDiscoverServiceResult
NoState ==
    [returned |-> FALSE, importedPackages |-> <<>>, catalogPackages |-> <<>>,
     availablePackages |-> <<>>, catalogPackageEntries |-> <<>>,
     availablePackageEntries |-> <<>>]

\* no error thrown by the call
NoServiceError == [name |-> "none", message |-> "none"]

\* no discovery session: the catalog services do not act
InitNoDiscover ==
    /\ catalogIndexFile = AbsentIndex
    /\ discoverCall = NoDiscoverCall
    /\ discoverResult = NoState
    /\ discoverEvents = <<>>
    /\ discoverError = NoServiceError

\* no spex-catalog.yml
AbsentSpecification == [exists |-> FALSE, isObject |-> FALSE, isList |-> FALSE, items |-> <<>>]

\* CatalogBuildService before run
InitNoCatalogBuild ==
    /\ catalogSpecFile = AbsentSpecification
    /\ catalogPc = "idle"
    /\ catalogPackages = <<>>
    /\ catalogPosition = 1
    /\ catalogEvents = <<>>
    /\ catalogError = NoServiceError
    /\ harvested = <<>>

\* a type path or the spex path that does not exist
AbsentEntry == [kind |-> "absent", entries |-> {}]

\* no call of DefaultValidationService.validate
NoValidation ==
    [called |-> FALSE, ok |-> FALSE, error |-> "none", issues |-> <<>>,
     spexPath |-> <<>>, validatedTypes |-> <<>>, events |-> <<>>]

\* no validation session: the project directory is not looked at
InitNoValidate ==
    /\ project = [spex |-> "absent", types |-> <<>>]
    /\ validation = NoValidation

\* no concurrent invocations
InitNoRace ==
    /\ racePc = <<>>
    /\ raceRepository = <<>>
    /\ raceCheckout = <<>>
    /\ raceOverlaps = {}

InitNoService == InitNoDiscover /\ InitNoCatalogBuild /\ InitNoValidate /\ InitNoRace

InitForms ==
    /\ triple = [host |-> <<>>, namespace |-> <<>>, name |-> <<>>]
    /\ formResults = <<>>

\* BuildService before its first run
InitRun ==
    /\ remoteVersion = [u \in RepoUrls |-> 0]
    /\ mirrors = [m \in MirrorPaths |-> AbsentMirror]
    /\ tmpDirs = ForeignTmpDirs
    /\ pc = "idle"
    /\ runs = 0
    /\ packageIds = <<>>
    /\ index = 1
    /\ importedPackages = <<>>
    /\ events = <<>>
    /\ lastError = NoError
    /\ mirrorCall = NoCall
    /\ prevCall = NoCall
    /\ lastCall = NoCall
    /\ temporaryBasePath = NoTmp
    /\ checkout = NoContent
    /\ exportIgnorePatterns = <<>>
    /\ targetBefore = AbsentTree
    /\ targetsAtPackageStart = targets
    /\ thrown = NoError

\* no build is running: nothing but the parsers acts
InitNoBuild ==
    /\ buildFile = [exists |-> FALSE, packages |-> <<>>, ignores |-> <<>>]
    /\ remote = [u \in RepoUrls |-> ContentPlain]
    /\ targets = [t \in TargetPaths |-> AbsentTree]
    /\ InitRun
    /\ InitNoService

InitParse ==
    /\ raw \in RawInputs
    /\ parsed = NotParsed
    /\ catalogParsed = CatalogNotParsed
    /\ targetPath = <<>>
    /\ mirrorPath = <<>>
    /\ InitForms
    /\ InitNoBuild

\* BuildService.run, loop body: parse the identifier, derive the import target;
\* ensureCachedPackageRepositoryMirror: derive the mirror path
ParseBuildId ==
    /\ parsed = NotParsed
    /\ parsed' = parsePackageId(raw)
    /\ targetPath' = IF parsed'.ok THEN TargetPathOf(parsed') ELSE <<>>
    /\ mirrorPath' = IF parsed'.ok THEN getCachedPackageRepositoryMirrorPath(parsed') ELSE <<>>
    /\ UNCHANGED <<raw, catalogParsed, formVars, serviceVars, buildVars>>

\* readRepositoryMetadata: parse the catalog identifier
ParseCatalogId ==
    /\ catalogParsed = CatalogNotParsed
    /\ catalogParsed' = parseCatalogPackageIdentifier(raw)
    /\ UNCHANGED <<raw, parsed, targetPath, mirrorPath, formVars, serviceVars, buildVars>>

NextParse == ParseBuildId \/ ParseCatalogId

SpecParse == InitParse /\ [][NextParse]_vars

----------------------------------------------------------------------------
(* Parsing the written forms of one (host, namespace, name)                 *)

FormHosts == { defaultPackageHost, <<"h", ".", "c">>, <<"H", ".", "c">> }

FormNamespaces == { <<"a">>, <<"B", "_">>, <<".", ".">> }

FormNames == { <<"b">>, <<"x", "-", "y">>, <<".">> }

Forms == { "explicit", "url", "url.git", "url/", "url.git//", "short" }

FormText(f, t) ==
    LET path == t.namespace \o <<Slash>> \o t.name
    IN  CASE f = "explicit" -> t.host \o <<Slash>> \o path
          [] f = "url" -> HttpsPrefix \o t.host \o <<Slash>> \o path
          [] f = "url.git" -> HttpsPrefix \o t.host \o <<Slash>> \o path \o DotGit
          [] f = "url/" -> HttpsPrefix \o t.host \o <<Slash>> \o path \o <<Slash>>
          [] f = "url.git//" ->
                 HttpsPrefix \o t.host \o <<Slash>> \o path \o DotGit \o <<Slash, Slash>>
          [] f = "short" -> path

\* the short form names the default host only
FormApplies(f, t) == f = "short" => t.host = defaultPackageHost

InitNorm ==
    /\ triple \in [host : FormHosts, namespace : FormNamespaces, name : FormNames]
    /\ formResults = [f \in Forms |-> NotParsed]
    /\ raw = <<>>
    /\ parsed = NotParsed
    /\ catalogParsed = CatalogNotParsed
    /\ targetPath = <<>>
    /\ mirrorPath = <<>>
    /\ InitNoBuild

ParseForm(f) ==
    /\ FormApplies(f, triple)
    /\ formResults[f] = NotParsed
    /\ formResults' = [formResults EXCEPT ![f] = parsePackageId(FormText(f, triple))]
    /\ UNCHANGED <<triple, parseVars, buildVars, serviceVars>>

NextNorm == \E f \in Forms : ParseForm(f)

SpecNorm == InitNorm /\ [][NextNorm]_vars

----------------------------------------------------------------------------
(* BuildService.run: the build pipeline                                     *)

Event(name, packageId) == [name |-> name, packageId |-> packageId]

\* parseStringList: the string items, trimmed, without the empty ones
parseStringList(items) == FilterBoolean([i \in 1..Len(items) |-> Trim(items[i])])

InitBuild ==
    /\ raw = <<>>
    /\ parsed = NotParsed
    /\ catalogParsed = CatalogNotParsed
    /\ targetPath = <<>>
    /\ mirrorPath = <<>>
    /\ InitForms
    /\ buildFile \in BuildFiles
    /\ \E c \in Contents :
           remote = [u \in RepoUrls |->
                        IF u = DefaultRepoUrl THEN c ELSE ContentPlain]
    /\ targets = [t \in TargetPaths |->
                      IF t = TargetPathOf([host |-> defaultPackageHost, namespace |-> <<"a">>,
                                           name |-> <<"b">>])
                      THEN TreeOld ELSE AbsentTree]
    /\ InitRun
    /\ InitNoService

\* the pushes to the remote repositories so far
RECURSIVE Pushes(_)
Pushes(urls) ==
    IF urls = {} THEN 0
    ELSE LET u == CHOOSE v \in urls : TRUE IN remoteVersion[u] + Pushes(urls \ {u})

\* a push to a remote repository changes its content; it happens between
\* two imports
RemotePush(u) ==
    /\ pc \in {"idle", "done", "failed", "loop"}
    /\ Pushes(RepoUrls) < MaxPushes
    /\ remote' = [remote EXCEPT ![u] = PushedContent(@)]
    /\ remoteVersion' = [remoteVersion EXCEPT ![u] = @ + 1]
    /\ UNCHANGED <<parseVars, formVars, serviceVars, buildFile, mirrors, targets, tmpDirs, runVars,
                   mirrorCallVars, importVars>>


\* run going into the loop without the test for the build file
Run_Start_FileAssumed(valid) ==
    /\ pc \in {"idle", "done", "failed"}
    /\ runs < MaxRuns
    /\ runs' = runs + 1
    /\ importedPackages' = <<>>
    /\ index' = 1
    /\ IF ~valid
       THEN /\ pc' = "failed"
            /\ lastError' = ErrorOf("Spex structure validation failed.", <<>>, "none")
            /\ packageIds' = <<>>
            /\ events' = <<Event("onBuildStarted", <<>>), Event("onValidationStarted", <<>>)>>
       ELSE IF FALSE
       THEN /\ pc' = "done"
            /\ lastError' = NoError
            /\ packageIds' = <<>>
            /\ events' = <<Event("onBuildStarted", <<>>), Event("onValidationStarted", <<>>),
                           Event("onValidationPassed", <<>>),
                           Event("onAgentsFileWritten", <<>>),
                           Event("onBuildFileMissing", <<>>),
                           Event("onBuildFinished", <<>>)>>
       ELSE /\ pc' = "loop"
            /\ lastError' = NoError
            /\ packageIds' = parseStringList(buildFile.packages)
            /\ events' = <<Event("onBuildStarted", <<>>), Event("onValidationStarted", <<>>),
                           Event("onValidationPassed", <<>>),
                           Event("onAgentsFileWritten", <<>>),
                           Event("onBuildFileDetected", <<>>),
                           Event("onBuildPackagesResolved", <<>>)>>
    /\ parsed' = NotParsed
    /\ targetPath' = <<>>
    /\ mirrorPath' = <<>>
    /\ temporaryBasePath' = NoTmp
    /\ checkout' = NoContent
    /\ exportIgnorePatterns' = <<>>
    /\ targetBefore' = AbsentTree
    /\ targetsAtPackageStart' = targets
    /\ thrown' = NoError
    /\ UNCHANGED <<raw, catalogParsed, formVars, serviceVars, worldVars, mirrorCallVars>>
\* run, up to the for loop: validation, AGENTS.md, the build file
Run_Start(valid) ==
    /\ pc \in {"idle", "done", "failed"}
    /\ runs < MaxRuns
    /\ runs' = runs + 1
    /\ importedPackages' = <<>>
    /\ index' = 1
    /\ IF ~valid
       THEN /\ pc' = "failed"
            /\ lastError' = ErrorOf("Spex structure validation failed.", <<>>, "none")
            /\ packageIds' = <<>>
            /\ events' = <<Event("onBuildStarted", <<>>), Event("onValidationStarted", <<>>)>>
       ELSE IF ~buildFile.exists
       THEN /\ pc' = "done"
            /\ lastError' = NoError
            /\ packageIds' = <<>>
            /\ events' = <<Event("onBuildStarted", <<>>), Event("onValidationStarted", <<>>),
                           Event("onValidationPassed", <<>>),
                           Event("onAgentsFileWritten", <<>>),
                           Event("onBuildFileMissing", <<>>),
                           Event("onBuildFinished", <<>>)>>
       ELSE /\ pc' = "loop"
            /\ lastError' = NoError
            /\ packageIds' = parseStringList(buildFile.packages)
            /\ events' = <<Event("onBuildStarted", <<>>), Event("onValidationStarted", <<>>),
                           Event("onValidationPassed", <<>>),
                           Event("onAgentsFileWritten", <<>>),
                           Event("onBuildFileDetected", <<>>),
                           Event("onBuildPackagesResolved", <<>>)>>
    /\ parsed' = NotParsed
    /\ targetPath' = <<>>
    /\ mirrorPath' = <<>>
    /\ temporaryBasePath' = NoTmp
    /\ checkout' = NoContent
    /\ exportIgnorePatterns' = <<>>
    /\ targetBefore' = AbsentTree
    /\ targetsAtPackageStart' = targets
    /\ thrown' = NoError
    /\ UNCHANGED <<raw, catalogParsed, formVars, serviceVars, worldVars, mirrorCallVars>>

\* the loop body going on to the next package when an identifier is invalid
StartPackage_SkipOnError(p) ==
    /\ pc = "loop"
    /\ index <= Len(packageIds)
    /\ IF ~p.ok
       THEN /\ pc' = "loop"
            /\ index' = index + 1
            /\ UNCHANGED <<parsed, targetPath, events, lastError>>
       ELSE /\ pc' = "ensure"
            /\ parsed' = p
            /\ targetPath' = TargetPathOf(p)
            /\ events' = Append(events, Event("onPackageImportStarted", p.raw))
            /\ UNCHANGED <<lastError, index>>
    /\ targetsAtPackageStart' = targets
    /\ UNCHANGED <<raw, catalogParsed, mirrorPath, formVars, serviceVars, worldVars, runs, packageIds,
                   importedPackages, mirrorCallVars, temporaryBasePath, checkout,
                   exportIgnorePatterns, targetBefore, thrown>>

\* loop body, first part, for the result p of parsePackageId
StartPackage(p) ==
    /\ pc = "loop"
    /\ index <= Len(packageIds)
    /\ IF ~p.ok
       THEN /\ pc' = "failed"
            /\ lastError' = ErrorOf(p.error, p.raw, "none")
            /\ UNCHANGED <<parsed, targetPath, events>>
       ELSE /\ pc' = "ensure"
            /\ parsed' = p
            /\ targetPath' = TargetPathOf(p)
            /\ events' = Append(events, Event("onPackageImportStarted", p.raw))
            /\ UNCHANGED lastError
    /\ targetsAtPackageStart' = targets
    /\ UNCHANGED <<raw, catalogParsed, mirrorPath, formVars, serviceVars, worldVars, runs, packageIds,
                   index, importedPackages, mirrorCallVars, temporaryBasePath, checkout,
                   exportIgnorePatterns, targetBefore, thrown>>

\* loop body, first part: parsePackageId, targetPath, onPackageImportStarted
Run_ParsePackage ==
    /\ pc = "loop"
    /\ index <= Len(packageIds)
    /\ StartPackage(parsePackageId(packageIds[index]))

\* the record of the import put in front of the earlier ones
Run_PackageImported_Prepend ==
    /\ pc = "imported"
    /\ importedPackages' =
           <<[packageId |-> parsed.raw, sourceUrl |-> parsed.cloneUrl,
              targetPath |-> targetPath]>> \o importedPackages
    /\ events' = Append(events, Event("onPackageImported", parsed.raw))
    /\ index' = index + 1
    /\ pc' = "loop"
    /\ UNCHANGED <<parseVars, formVars, serviceVars, worldVars, runs, packageIds, lastError,
                   mirrorCallVars, importVars>>

\* loop body, last part: the record of the import, onPackageImported
Run_PackageImported ==
    /\ pc = "imported"
    /\ importedPackages' =
           Append(importedPackages,
                  [packageId |-> parsed.raw, sourceUrl |-> parsed.cloneUrl,
                   targetPath |-> targetPath])
    /\ events' = Append(events, Event("onPackageImported", parsed.raw))
    /\ index' = index + 1
    /\ pc' = "loop"
    /\ UNCHANGED <<parseVars, formVars, serviceVars, worldVars, runs, packageIds, lastError,
                   mirrorCallVars, importVars>>

\* after the loop: onBuildFinished, return result
Run_Finish ==
    /\ pc = "loop"
    /\ index > Len(packageIds)
    /\ events' = Append(events, Event("onBuildFinished", <<>>))
    /\ pc' = "done"
    /\ UNCHANGED <<parseVars, formVars, serviceVars, worldVars, runs, packageIds, index,
                   importedPackages, lastError, mirrorCallVars, importVars>>

----------------------------------------------------------------------------
(* ensureCachedPackageRepositoryMirror                                      *)

\* pathExists(cacheRepositoryPath), never seeing the mirror
MirrorExists_Never(path) == FALSE

\* pathExists(cacheRepositoryPath), true of a complete repository only
MirrorExists_CompleteOnly(path) == mirrors[path].state = "complete"

\* pathExists(cacheRepositoryPath)
MirrorExists(path) == mirrors[path].state /= "absent"

\* the branch without the set-url step
MirrorBranch_FetchOnly(exists) == IF exists THEN "fetch" ELSE "mirror-clone"

\* if (!(await pathExists(cacheRepositoryPath))) clone, else set-url and fetch
MirrorBranch(exists) == IF exists THEN "set-url" ELSE "mirror-clone"

\* the mirror call in progress, after one more git command
CallAfter(op, ok) ==
    [mirrorCall EXCEPT !.ops = Append(@, op), !.ok = ok,
                       !.versionAtEnd = remoteVersion[mirrorCall.cloneUrl]]

\* the path, mkdir of its parent, and the test whether the mirror exists
Ensure_Begin ==
    /\ pc = "ensure"
    /\ LET path == getCachedPackageRepositoryMirrorPath(parsed)
       IN  /\ mirrorPath' = path
           /\ mirrorCall' =
                  [host |-> parsed.host, namespace |-> parsed.namespace,
                   name |-> parsed.name, cloneUrl |-> parsed.cloneUrl, path |-> path,
                   absentAtStart |-> ~MirrorExists(path), ops |-> <<>>, ok |-> FALSE,
                   versionAtStart |-> remoteVersion[parsed.cloneUrl],
                   versionAtEnd |-> remoteVersion[parsed.cloneUrl]]
           /\ pc' = MirrorBranch(MirrorExists(path))
    /\ UNCHANGED <<raw, parsed, catalogParsed, targetPath, formVars, serviceVars, worldVars, runs,
                   packageIds, index, importedPackages, events, lastError, prevCall,
                   lastCall, importVars>>

\* the outcomes of a git command that writes a repository
GitOutcomes == {"ok", "failed", "interrupted"}

\* git clone --mirror --quiet cloneUrl cacheRepositoryPath
Ensure_Clone(outcome) ==
    /\ pc = "mirror-clone"
    /\ outcome = "ok" => mirrors[mirrorPath].state = "absent"
    /\ mirrors' =
           CASE outcome = "ok" ->
                    [mirrors EXCEPT ![mirrorPath] =
                        [state |-> "complete", origin |-> mirrorCall.cloneUrl,
                         content |-> remote[mirrorCall.cloneUrl]]]
             [] outcome = "interrupted" ->
                    [mirrors EXCEPT ![mirrorPath] =
                        [state |-> "partial", origin |-> mirrorCall.cloneUrl,
                         content |-> NoContent]]
             [] OTHER -> mirrors
    /\ prevCall' = lastCall
    /\ lastCall' = CallAfter("clone", outcome = "ok")
    /\ mirrorCall' = NoCall
    /\ IF outcome = "ok"
       THEN pc' = "mkdtemp" /\ UNCHANGED lastError
       ELSE /\ pc' = "failed"
            /\ lastError' = ErrorOf("Command failed: git clone --mirror",
                                    mirrorCall.cloneUrl, "stderr")
    /\ UNCHANGED <<parseVars, formVars, serviceVars, buildFile, remote, remoteVersion, targets, tmpDirs,
                   runs, packageIds, index, importedPackages, events, importVars>>

\* git remote set-url origin cloneUrl, run inside the mirror
Ensure_SetUrl(outcome) ==
    /\ pc = "set-url"
    /\ outcome \in {"ok", "failed"}
    /\ IF outcome = "ok"
       THEN /\ mirrors' = [mirrors EXCEPT ![mirrorPath].origin = mirrorCall.cloneUrl]
            /\ mirrorCall' = CallAfter("set-url", FALSE)
            /\ pc' = "fetch"
            /\ UNCHANGED <<prevCall, lastCall, lastError>>
       ELSE /\ prevCall' = lastCall
            /\ lastCall' = CallAfter("set-url", FALSE)
            /\ mirrorCall' = NoCall
            /\ pc' = "failed"
            /\ lastError' = ErrorOf("Command failed: git remote set-url",
                                    mirrorCall.cloneUrl, "stderr")
            /\ UNCHANGED mirrors
    /\ UNCHANGED <<parseVars, formVars, serviceVars, buildFile, remote, remoteVersion, targets, tmpDirs,
                   runs, packageIds, index, importedPackages, events, importVars>>

\* git fetch pruning the other mirrors of the cache
Ensure_Fetch_PruneCache(outcome) ==
    /\ pc = "fetch"
    /\ outcome \in {"ok", "failed"}
    /\ IF outcome = "ok"
       THEN /\ mirrors' = [m \in MirrorPaths |->
                               IF m = mirrorPath
                               THEN [state |-> "complete", origin |-> mirrors[m].origin,
                                     content |-> remote[mirrors[m].origin]]
                               ELSE AbsentMirror]
            /\ pc' = "mkdtemp"
            /\ UNCHANGED lastError
       ELSE /\ pc' = "failed"
            /\ lastError' = ErrorOf("Command failed: git fetch", <<>>, "stderr")
            /\ UNCHANGED mirrors
    /\ prevCall' = lastCall
    /\ lastCall' = CallAfter("fetch", outcome = "ok")
    /\ mirrorCall' = NoCall
    /\ UNCHANGED <<parseVars, formVars, serviceVars, buildFile, remote, remoteVersion, targets, tmpDirs,
                   runs, packageIds, index, importedPackages, events, importVars>>

\* git fetch --quiet --prune origin, run inside the mirror
Ensure_Fetch(outcome) ==
    /\ pc = "fetch"
    /\ outcome \in {"ok", "failed"}
    /\ IF outcome = "ok"
       THEN /\ mirrors' = [mirrors EXCEPT ![mirrorPath] =
                               [state |-> "complete", origin |-> @.origin,
                                content |-> remote[@.origin]]]
            /\ pc' = "mkdtemp"
            /\ UNCHANGED lastError
       ELSE /\ pc' = "failed"
            /\ lastError' = ErrorOf("Command failed: git fetch", <<>>, "stderr")
            /\ UNCHANGED mirrors
    /\ prevCall' = lastCall
    /\ lastCall' = CallAfter("fetch", outcome = "ok")
    /\ mirrorCall' = NoCall
    /\ UNCHANGED <<parseVars, formVars, serviceVars, buildFile, remote, remoteVersion, targets, tmpDirs,
                   runs, packageIds, index, importedPackages, events, importVars>>

----------------------------------------------------------------------------
(* clonePackageToPath                                                       *)

\* the body of the try block failed with this error
Throws(message, details) ==
    /\ thrown' = ErrorOf(message, mirrorPath, details)
    /\ pc' = "catch"

\* the patterns read from the build file of the importing project instead
readExportIgnorePatterns_Project(repository) == parseStringList(buildFile.ignores)

\* readExportIgnorePatterns of a checked-out repository
readExportIgnorePatterns(repository) ==
    IF ~repository.hasBuildFile THEN <<>> ELSE parseStringList(repository.ignores)

\* rm(targetPath, recursive, force), leaving the target in place
RemoveTarget_Keep(tree) == tree

\* rm(targetPath, recursive, force)
RemoveTarget(tree) == AbsentTree

\* the finally block, removing the directory only after a success
TmpAfterFinally_OnSuccess(dirs, dir, failed) == IF failed THEN dirs ELSE dirs \ {dir}

\* the finally block: rm(temporaryBasePath, recursive, force)
TmpAfterFinally(dirs, dir, failed) == dirs \ {dir}

\* mkdtemp(tmpdir()/spex-import-): a directory that did not exist
Import_Mkdtemp(dir) ==
    /\ pc = "mkdtemp"
    /\ dir \in TmpNames \ tmpDirs
    /\ tmpDirs' = tmpDirs \cup {dir}
    /\ temporaryBasePath' = dir
    /\ checkout' = NoContent
    /\ exportIgnorePatterns' = <<>>
    /\ targetBefore' = targets[targetPath]
    /\ UNCHANGED targetsAtPackageStart
    /\ thrown' = NoError
    /\ pc' = "git-clone"
    /\ UNCHANGED <<parseVars, formVars, serviceVars, buildFile, remote, remoteVersion, mirrors, targets,
                   runs, packageIds, index, importedPackages, events, lastError,
                   mirrorCallVars>>

\* mkdtemp fails: it is outside the try block
Import_MkdtempFails ==
    /\ pc = "mkdtemp"
    /\ pc' = "failed"
    /\ lastError' = ErrorOf("mkdtemp failed", <<>>, "none")
    /\ UNCHANGED <<parseVars, formVars, serviceVars, worldVars, runs, packageIds, index,
                   importedPackages, events, mirrorCallVars, importVars>>

\* git clone --depth 1 cacheRepositoryPath temporaryClonePath
Import_Clone(outcome) ==
    /\ pc = "git-clone"
    /\ outcome \in {"ok", "failed"}
    /\ outcome = "ok" => mirrors[mirrorPath].state = "complete"
    /\ IF outcome = "ok"
       THEN /\ checkout' = mirrors[mirrorPath].content
            /\ pc' = "check-spex"
            /\ UNCHANGED thrown
       ELSE /\ Throws("Command failed: git clone --depth 1", "stderr")
            /\ UNCHANGED checkout
    /\ UNCHANGED <<parseVars, formVars, serviceVars, worldVars, runs, packageIds, index,
                   importedPackages, events, lastError, mirrorCallVars,
                   temporaryBasePath, exportIgnorePatterns,
                   targetBefore, targetsAtPackageStart>>

\* pathExists(clonedSpexPath), and the throw when the directory is missing
Import_CheckSpex ==
    /\ pc = "check-spex"
    /\ IF checkout.spex.exists
       THEN pc' = "read-ignores" /\ UNCHANGED thrown
       ELSE Throws("Missing spex directory in downloaded package", "none")
    /\ UNCHANGED <<parseVars, formVars, serviceVars, worldVars, runs, packageIds, index,
                   importedPackages, events, lastError, mirrorCallVars,
                   temporaryBasePath, checkout, exportIgnorePatterns,
                   targetBefore, targetsAtPackageStart>>

\* readExportIgnorePatterns(clonedBuildFilePath)
Import_ReadIgnores(outcome) ==
    /\ pc = "read-ignores"
    /\ outcome \in {"ok", "failed"}
    /\ outcome = "failed" => checkout.hasBuildFile
    /\ IF outcome = "ok"
       THEN /\ exportIgnorePatterns' = readExportIgnorePatterns(checkout)
            /\ pc' = "rm-target"
            /\ UNCHANGED thrown
       ELSE /\ Throws("Cannot read .spex/spex.yml", "none")
            /\ UNCHANGED exportIgnorePatterns
    /\ UNCHANGED <<parseVars, formVars, serviceVars, worldVars, runs, packageIds, index,
                   importedPackages, events, lastError, mirrorCallVars,
                   temporaryBasePath, checkout,
                   targetBefore, targetsAtPackageStart>>

\* rm(targetPath, recursive, force)
Import_RmTarget(outcome) ==
    /\ pc = "rm-target"
    /\ outcome \in {"ok", "failed"}
    /\ IF outcome = "ok"
       THEN /\ targets' = [targets EXCEPT ![targetPath] = RemoveTarget(@)]
            /\ pc' = "mkdir-parent"
            /\ UNCHANGED thrown
       ELSE /\ Throws("rm failed", "none")
            /\ UNCHANGED targets
    /\ UNCHANGED <<parseVars, formVars, serviceVars, buildFile, remote, remoteVersion, mirrors, tmpDirs,
                   runs, packageIds, index, importedPackages, events, lastError,
                   mirrorCallVars, temporaryBasePath, checkout, exportIgnorePatterns,
                   targetBefore, targetsAtPackageStart>>

\* mkdir(dirname(targetPath), recursive)
Import_MkdirParent(outcome) ==
    /\ pc = "mkdir-parent"
    /\ outcome \in {"ok", "failed"}
    /\ IF outcome = "ok"
       THEN pc' = "copy" /\ UNCHANGED thrown
       ELSE Throws("mkdir failed", "none")
    /\ UNCHANGED <<parseVars, formVars, serviceVars, worldVars, runs, packageIds, index,
                   importedPackages, events, lastError, mirrorCallVars,
                   temporaryBasePath, checkout, exportIgnorePatterns,
                   targetBefore, targetsAtPackageStart>>

\* copyPackageSpexDirectory(clonedSpexPath, targetPath, exportIgnorePatterns)
Import_Copy(outcome) ==
    /\ pc = "copy"
    /\ outcome \in {"ok", "failed"}
    /\ IF outcome = "ok"
       THEN /\ targets' = [targets EXCEPT ![targetPath] =
                              copyPackageSpexDirectory(checkout.spex, @,
                                                       exportIgnorePatterns)]
            /\ pc' = "finally"
            /\ UNCHANGED thrown
       ELSE /\ Throws("cp failed", "none")
            /\ UNCHANGED targets
    /\ UNCHANGED <<parseVars, formVars, serviceVars, buildFile, remote, remoteVersion, mirrors, tmpDirs,
                   runs, packageIds, index, importedPackages, events, lastError,
                   mirrorCallVars, temporaryBasePath, checkout, exportIgnorePatterns,
                   targetBefore, targetsAtPackageStart>>

\* the catch block: every error becomes "Failed to import package from ..."
Import_Catch ==
    /\ pc = "catch"
    /\ lastError' = ErrorOf("Failed to import package from", parsed.cloneUrl,
                            thrown.details)
    /\ pc' = "finally"
    /\ UNCHANGED <<parseVars, formVars, serviceVars, worldVars, runs, packageIds, index,
                   importedPackages, events, mirrorCallVars, importVars>>

\* the finally block, and the return or the rethrow after it
Import_Finally ==
    /\ pc = "finally"
    /\ tmpDirs' = TmpAfterFinally(tmpDirs, temporaryBasePath, thrown /= NoError)
    /\ pc' = IF thrown /= NoError THEN "failed" ELSE "imported"
    /\ UNCHANGED <<parseVars, formVars, serviceVars, buildFile, remote, remoteVersion, mirrors, targets,
                   runs, packageIds, index, importedPackages, events, lastError,
                   mirrorCallVars, importVars>>

Next ==
    \/ \E u \in RepoUrls : RemotePush(u)
    \/ \E valid \in BOOLEAN : Run_Start(valid)
    \/ Run_ParsePackage
    \/ Run_PackageImported
    \/ Run_Finish
    \/ Ensure_Begin
    \/ \E outcome \in GitOutcomes :
           \/ Ensure_Clone(outcome)
           \/ Ensure_SetUrl(outcome)
           \/ Ensure_Fetch(outcome)
           \/ Import_Clone(outcome)
           \/ Import_ReadIgnores(outcome)
           \/ Import_RmTarget(outcome)
           \/ Import_MkdirParent(outcome)
           \/ Import_Copy(outcome)
    \/ \E dir \in TmpNames : Import_Mkdtemp(dir)
    \/ Import_MkdtempFails
    \/ Import_CheckSpex
    \/ Import_Catch
    \/ Import_Finally

Spec == InitBuild /\ [][Next]_vars

----------------------------------------------------------------------------
(* Properties of the identifier parsers                                     *)

DotSegments == { <<".">>, <<".", ".">> }

\* C1: for every identifier parsePackageId accepts, the mirror path lies
\* below the cache root, the import target lies exactly three levels below
\* .spex/imports, and no accepted host, namespace or name is '.' or '..'.
C1_DerivedPathsStayInside ==
    parsed.ok =>
        /\ IsPrefixPath(getPackagesCacheDirectory, mirrorPath)
        /\ Len(mirrorPath) > Len(getPackagesCacheDirectory)
        /\ IsPrefixPath(ImportsRoot, targetPath)
        /\ Len(targetPath) = Len(ImportsRoot) + 3
        /\ {parsed.host, parsed.namespace, parsed.name} \cap DotSegments = {}

\* C2: the explicit-host form, the URL forms (with or without .git and
\* trailing slashes) and, for the default host, the short form of one
\* (host, namespace, name) all parse to that host, namespace and name, with
\* cloneUrl https://{host}/{namespace}/{name}.git.
C2_FormIndependent ==
    \A f \in Forms :
        formResults[f] /= NotParsed =>
            /\ formResults[f].ok
            /\ formResults[f].host = triple.host
            /\ formResults[f].namespace = triple.namespace
            /\ formResults[f].name = triple.name
            /\ formResults[f].cloneUrl
                   = CloneUrlOf(triple.host, triple.namespace, triple.name)

HasDisallowedChar(segment) ==
    segment = <<>> \/ \E i \in 1..Len(segment) : segment[i] \notin SafeChars

UnsafeSegmentMessages(e) ==
    (IF HasDisallowedChar(e.host)
     THEN {"Invalid package host in package identifier"} ELSE {})
    \cup (IF HasDisallowedChar(e.namespace)
          THEN {"Invalid package namespace in package identifier"} ELSE {})
    \cup (IF HasDisallowedChar(e.name)
          THEN {"Invalid package name in package identifier"} ELSE {})

\* C3: when the host, namespace or name extracted from a raw identifier
\* (name after the strip of one trailing .git) is empty or has a character
\* outside [A-Za-z0-9._-], parsePackageId yields no identifier and fails
\* with an error that names an unsafe segment.
C3_UnsafeSegmentRejected ==
    (parsed /= NotParsed /\ ExtractPackageId(raw).ok
        /\ UnsafeSegmentMessages(ExtractPackageId(raw)) /= {}) =>
        /\ ~parsed.ok
        /\ parsed.cloneUrl = <<>>
        /\ parsed.error \in UnsafeSegmentMessages(ExtractPackageId(raw))

\* an identifier whose name alone is unsafe has been rejected, naming it
C3_Witness ==
    /\ parsed /= NotParsed
    /\ ExtractPackageId(raw).ok
    /\ ~HasDisallowedChar(ExtractPackageId(raw).host)
    /\ ~HasDisallowedChar(ExtractPackageId(raw).namespace)
    /\ HasDisallowedChar(ExtractPackageId(raw).name)
    /\ parsed.error = "Invalid package name in package identifier"

\* the pieces of the identifier's path: of the URL path for scheme://...,
\* of the whole identifier otherwise
IsFullUrl(value) == Includes(value, SchemeMark)

IdentifierSegments(value) ==
    IF IsFullUrl(value)
    THEN FilterBoolean(Split(ParseURL(value).pathname, Slash))
    ELSE FilterBoolean(Split(value, Slash))

SegmentCountAccepted(value) ==
    IF IsFullUrl(value)
    THEN Len(IdentifierSegments(value)) = 2
    ELSE \/ Len(IdentifierSegments(value)) = 2
         \/ /\ Len(IdentifierSegments(value)) = 3
            /\ Includes(IdentifierSegments(value)[1], <<".">>)

\* C4: both parsers accept a full URL only with exactly two path segments
\* and another identifier only with two segments, or three whose first has
\* a dot; they accept the same identifiers and return the same host,
\* namespace, name and cloneUrl.
C4_SegmentCountRule ==
    (parsed /= NotParsed /\ catalogParsed /= CatalogNotParsed) =>
        /\ parsed.ok => SegmentCountAccepted(Trim(raw))
        /\ catalogParsed.ok => SegmentCountAccepted(Trim(raw))
        /\ parsed.ok = catalogParsed.ok
        /\ parsed.ok =>
               /\ parsed.host = catalogParsed.host
               /\ parsed.namespace = catalogParsed.namespace
               /\ parsed.name = catalogParsed.name
               /\ parsed.cloneUrl = catalogParsed.cloneUrl

----------------------------------------------------------------------------
(* Properties of the mirror cache and of the import of one package          *)

\* how often a git command occurs in the commands of a mirror call
CountOp(ops, op) == Cardinality({ i \in 1..Len(ops) : ops[i] = op })

SameRepository(c, d) ==
    c.host = d.host /\ c.namespace = d.namespace /\ c.name = d.name

\* {cacheRoot}/{host}/{namespace}/{name}.git, written out
MirrorPathByLayout(c) ==
    getPackagesCacheDirectory \o <<c.host, c.namespace, c.name \o DotGit>>

\* the last two mirror calls were for one repository, the first found no
\* mirror and succeeded, and the remote did not change from the start of the
\* first to the end of the second
TwoCallsFromAbsent ==
    /\ prevCall /= NoCall
    /\ SameRepository(prevCall, lastCall)
    /\ prevCall.absentAtStart
    /\ prevCall.ok
    /\ prevCall.versionAtStart = lastCall.versionAtEnd

\* C5: two successive mirror calls for one repository use the same path, the
\* path laid out as cacheRoot/host/namespace/name.git; when the first one
\* started from an absent mirror and the remote did not change, the two calls
\* clone exactly once and fetch at most once.
C5_TwoCallsOneClone ==
    /\ lastCall /= NoCall => lastCall.path = MirrorPathByLayout(lastCall)
    /\ (prevCall /= NoCall /\ SameRepository(prevCall, lastCall))
           => prevCall.path = lastCall.path
    /\ TwoCallsFromAbsent
           => /\ CountOp(prevCall.ops \o lastCall.ops, "clone") = 1
              /\ CountOp(prevCall.ops \o lastCall.ops, "fetch") <= 1

\* both calls returned: the first cloned, the second fetched
C5_Witness ==
    /\ TwoCallsFromAbsent
    /\ lastCall.ok
    /\ prevCall.ops = <<"clone">>
    /\ lastCall.ops = <<"set-url", "fetch">>

\* the import failed because the checkout has no spex directory
MissingSpexFailure ==
    /\ pc = "failed"
    /\ thrown.message = "Missing spex directory in downloaded package"

\* C6: when the checkout has no spex directory the import fails with the
\* error of the missing content, not with that of a failed remote operation,
\* and the target is what it was before the import.
C6_MissingSpexReported ==
    MissingSpexFailure
        => /\ lastError.message = "Missing spex directory in downloaded package"
           /\ targets[targetPath] = targetBefore

\* clonePackageToPath is between its mkdtemp and the end of its finally block
InsideImport ==
    pc \in {"git-clone", "check-spex", "read-ignores", "rm-target", "mkdir-parent",
            "copy", "catch", "finally"}

IsPycPath(path) == EndsWith(path[Len(path)], <<".", "p", "y", "c">>)

\* a path below the directory build
IsBelowBuild(path) == Len(path) >= 2 /\ path[1] = NameBuild

\* the package was copied to its target
Copied == pc = "imported"

\* C8: after an import with the ignore pattern **/*.pyc the target holds no
\* file whose name ends in .pyc, and after one with build/** it holds
\* nothing below the directory build.
C8_IgnoredEntriesNotCopied ==
    Copied =>
        \A i \in 1..Len(exportIgnorePatterns) :
            /\ exportIgnorePatterns[i] = PatternPyc
                   => \A f \in targets[targetPath].files : ~IsPycPath(f)
            /\ exportIgnorePatterns[i] = PatternBuild
                   => \A e \in targets[targetPath].files \cup targets[targetPath].dirs :
                          ~IsBelowBuild(e)

\* the source had .pyc files and entries below build, and something was copied
C8_Witness ==
    /\ Copied
    /\ exportIgnorePatterns = <<PatternBuild, PatternPyc>>
    /\ \E f \in checkout.spex.files : IsPycPath(f) /\ Len(f) = 1
    /\ \E f \in checkout.spex.files : IsBelowBuild(f)
    /\ <<NameReadme>> \in targets[targetPath].files

\* export.ignores of the checked-out package's own build file
OwnIgnores == IF checkout.hasBuildFile THEN checkout.ignores ELSE <<>>

\* C9: the patterns of an import are those of the package's own build file,
\* none when it has no build file, and the target is the copy of the
\* package's spex directory filtered by them, whatever the importing
\* project's build file says.
C9_OnlySourceIgnoresApply ==
    Copied =>
        /\ exportIgnorePatterns = OwnIgnores
        /\ targets[targetPath] =
               copyPackageSpexDirectory(checkout.spex, AbsentTree, OwnIgnores)

\* the project ignores r.md, the package ignores other entries: r.md is copied
C9_Witness ==
    /\ Copied
    /\ buildFile.ignores = <<PatternReadme>>
    /\ checkout.hasBuildFile
    /\ OwnIgnores = <<PatternPyc>>
    /\ <<NameReadme>> \in targets[targetPath].files
    /\ <<NameTopPyc>> \notin targets[targetPath].files

\* C10: an import that succeeded followed a mirror call that cloned or
\* fetched the package's repository, and left at the target exactly the
\* filtered copy of the repository's spex directory; a run that finished
\* imported every package of the build file, in order.
C10_TargetReplaced ==
    /\ Copied =>
           /\ lastCall.ok
           /\ lastCall.cloneUrl = parsed.cloneUrl
           /\ lastCall.ops[Len(lastCall.ops)] \in {"clone", "fetch"}
           /\ targets[targetPath] =
                  copyPackageSpexDirectory(
                      remote[parsed.cloneUrl].spex, AbsentTree,
                      IF remote[parsed.cloneUrl].hasBuildFile
                      THEN remote[parsed.cloneUrl].ignores ELSE <<>>)
    /\ pc = "done" =>
           /\ Len(importedPackages) = Len(packageIds)
           /\ \A i \in 1..Len(packageIds) : importedPackages[i].packageId = packageIds[i]

\* the target existed before the import and held a file the new copy lacks
C10_Witness ==
    /\ Copied
    /\ targetBefore.exists
    /\ targetBefore.files /= {}
    /\ targets[targetPath].files /= {}
    /\ \E f \in targetBefore.files : f \notin targets[targetPath].files
    /\ lastCall.ops = <<"set-url", "fetch">>

----------------------------------------------------------------------------
(* Properties of a run over several packages                                *)

\* how often the listener received an event of this name in this run
CountEvents(name) == Cardinality({ i \in 1..Len(events) : events[i].name = name })

\* the run failed while it was processing the package at index
PackageFailure ==
    /\ pc = "failed"
    /\ index <= Len(packageIds)

\* after a package failure: no onBuildFinished, the packages before the
\* failing one are the imported ones, and no later package was started
RunAbortedAtIndex ==
    /\ CountEvents("onBuildFinished") = 0
    /\ Len(importedPackages) = index - 1
    /\ \A i \in 1..Len(importedPackages) : importedPackages[i].packageId = packageIds[i]
    /\ CountEvents("onPackageImportStarted") <= index
    /\ CountEvents("onPackageImported") = index - 1

\* C11 as stated: the first package failure aborts the run, nothing later
\* is processed, onBuildFinished is not emitted, and the target of every
\* package imported earlier in the run is what it was before the failing
\* package was processed.
C11_FirstFailureAborts ==
    PackageFailure
        => /\ RunAbortedAtIndex
           /\ \A i \in 1..Len(importedPackages) :
                  targets[importedPackages[i].targetPath]
                      = targetsAtPackageStart[importedPackages[i].targetPath]

\* C11 amended: as above, but the unchanged targets are those other than the
\* target path of the failing package; when the failure came before the try
\* block of clonePackageToPath no target changed at all.
C11_FirstFailureAbortsOtherTargets ==
    PackageFailure
        => /\ RunAbortedAtIndex
           /\ \A t \in TargetPaths :
                  t /= targetPath => targets[t] = targetsAtPackageStart[t]
           /\ thrown = NoError => targets = targetsAtPackageStart

\* the second of three packages failed after the first was imported
C11_Witness ==
    /\ PackageFailure
    /\ index = 2
    /\ Len(packageIds) = 3
    /\ Len(importedPackages) = 1
    /\ targets[importedPackages[1].targetPath].files /= {}

\* the listener events about single packages
IsPackageEvent(e) == e.name \in {"onPackageImportStarted", "onPackageImported"}

PackageEvents == SelectSeq(events, IsPackageEvent)

\* the record BuildService.run makes of the import of a parsed identifier
ExpectedImportRecord(p) ==
    [packageId |-> p.raw, sourceUrl |-> p.cloneUrl, targetPath |-> TargetPathOf(p)]

\* run is resolving, fetching or copying the package at index
ProcessingPackage ==
    pc \in {"ensure", "mirror-clone", "set-url", "fetch", "mkdtemp", "imported"}
        \/ InsideImport

\* C12: the package events of a run are onPackageImportStarted(p1),
\* onPackageImported(p1), onPackageImportStarted(p2), ... in build-file order;
\* whenever a package is being resolved, fetched or copied, every package
\* before it has been imported and no package after it has been started; and
\* importedPackages holds, in build-file order, one record {packageId: raw,
\* sourceUrl: cloneUrl, targetPath} per package imported so far.
C12_SequentialInOrder ==
    /\ \A k \in 1..Len(PackageEvents) :
           /\ PackageEvents[k].name =
                  IF k % 2 = 1 THEN "onPackageImportStarted" ELSE "onPackageImported"
           /\ PackageEvents[k].packageId = packageIds[(k + 1) \div 2]
    /\ ProcessingPackage
           => /\ parsed.raw = packageIds[index]
              /\ Len(PackageEvents) = 2 * index - 1
              /\ Len(importedPackages) = index - 1
    /\ pc \in {"loop", "done"} /\ packageIds /= <<>>
           => /\ Len(PackageEvents) = 2 * (index - 1)
              /\ Len(importedPackages) = index - 1
    /\ \A i \in 1..Len(importedPackages) :
           importedPackages[i] = ExpectedImportRecord(parsePackageId(packageIds[i]))

\* a run imported two packages with different targets
C12_Witness ==
    /\ pc = "done"
    /\ Len(packageIds) = 2
    /\ Len(importedPackages) = 2
    /\ importedPackages[1].targetPath /= importedPackages[2].targetPath

\* the run failed after onPackageImportStarted of the package at index:
\* clonePackageToPathFromCache threw
ImportFailure ==
    /\ PackageFailure
    /\ CountEvents("onPackageImportStarted") = index

\* C13: whatever step of an import fails, the error that reaches the caller
\* is the import failure error, and it carries the clone URL of the
\* identifier.
C13_ImportFailuresUniform ==
    ImportFailure
        => /\ lastError.message = "Failed to import package from"
           /\ lastError.source = parsed.cloneUrl

----------------------------------------------------------------------------
(* CatalogDiscoverService: the discovery session                            *)

IdAB == PkgShort
IdCD == <<"c", "/", "d">>
IdEF == <<"e", "/", "f">>

Padded(s) == <<" ">> \o s \o <<" ">>

\* the packageId inputs of addPackage
AddInputs == { IdAB, Padded(IdAB), IdCD, IdEF, <<>>, <<" ">> }

\* the project's build file when the session begins
DiscoverBuildFiles ==
    { [exists |-> FALSE, packages |-> <<>>, ignores |-> <<>>] }
    \cup [exists : {TRUE},
          packages : { <<>>, <<IdAB>>, <<IdCD, IdAB>>, <<Padded(IdAB), IdAB>>,
                       <<IdEF, <<" ">>, IdEF, IdAB>> },
          ignores : {<<PatternReadme>>}]

\* an item of the packages list of a catalog index: a string (id holds it),
\* an object (an empty id or name: the key is missing, blank or no string),
\* or something else
IndexString(text) == [kind |-> "string", id |-> text, name |-> <<>>]
IndexObject(id, name) == [kind |-> "object", id |-> id, name |-> name]
IndexOther == [kind |-> "other", id |-> <<>>, name |-> <<>>]

NameAB == <<"A", "B">>

ListIndex(items) == [exists |-> TRUE, isList |-> TRUE, items |-> items]

CatalogIndexFiles ==
    { AbsentIndex,
      [exists |-> TRUE, isList |-> FALSE, items |-> <<>>],
      ListIndex(<<>>),
      ListIndex(<<IndexObject(IdAB, NameAB), IndexObject(IdCD, <<>>)>>),
      ListIndex(<<IndexString(Padded(IdCD)), IndexString(IdAB), IndexString(IdCD),
                 IndexString(<<" ">>)>>),
      ListIndex(<<IndexObject(IdEF, Padded(NameAB)), IndexString(IdAB),
                 IndexObject(Padded(IdEF), <<>>), IndexObject(IdCD, <<" ">>)>>),
      ListIndex(<<IndexObject(IdAB, NameAB), IndexOther>>),
      ListIndex(<<IndexString(IdAB), IndexObject(<<" ">>, NameAB)>>) }

DiscoverErrorOf(name, message) == [name |-> name, message |-> message]

\* uniqueStrings: the first occurrence of every value, in order
RECURSIVE uniqueStrings(_)
uniqueStrings(values) ==
    IF values = <<>> THEN <<>>
    ELSE LET front == uniqueStrings(SubSeq(values, 1, Len(values) - 1))
         IN  IF \E i \in 1..Len(front) : front[i] = values[Len(values)]
             THEN front
             ELSE Append(front, values[Len(values)])

\* discover-service parseBuildFilePackages
parseBuildFilePackages(content) == uniqueStrings(parseStringList(content.packages))

Seen(packages, id) == \E i \in 1..Len(packages) : packages[i].id = id

\* parseCatalogIndexPackages: one turn of the loop over packagesValue
IndexItemStep(acc, item) ==
    CASE item.kind = "string" ->
           IF Trim(item.id) /= <<>> /\ ~Seen(acc.packages, Trim(item.id))
           THEN [acc EXCEPT !.packages =
                    Append(@, [id |-> Trim(item.id), name |-> Trim(item.id)])]
           ELSE acc
      [] item.kind = "other" ->
           [acc EXCEPT !.ok = FALSE,
                       !.message = "Catalog index packages list must contain string values or objects with id."]
      [] item.kind = "object" ->
           IF Trim(item.id) = <<>>
           THEN [acc EXCEPT !.ok = FALSE,
                            !.message = "Catalog index package object must contain a non-empty id."]
           ELSE IF Seen(acc.packages, Trim(item.id))
           THEN acc
           ELSE [acc EXCEPT !.packages =
                    Append(@, [id |-> Trim(item.id),
                               name |-> IF Trim(item.name) /= <<>>
                                        THEN Trim(item.name) ELSE Trim(item.id)])]

RECURSIVE IndexItemLoop(_, _)
IndexItemLoop(acc, items) ==
    IF items = <<>> \/ ~acc.ok THEN acc
    ELSE IndexItemLoop(IndexItemStep(acc, Head(items)), Tail(items))

parseCatalogIndexPackages(content) ==
    IF ~content.isList
    THEN [ok |-> FALSE, message |-> "Catalog index must contain a packages list.",
          packages |-> <<>>]
    ELSE IndexItemLoop([ok |-> TRUE, message |-> "none", packages |-> <<>>],
                       content.items)

readOrCreateBuildFile_Silent(file) ==
    IF file.exists
    THEN [file |-> file, created |-> FALSE, packages |-> parseBuildFilePackages(file)]
    ELSE [file |-> [exists |-> TRUE, packages |-> <<>>, ignores |-> <<>>],
          created |-> FALSE, packages |-> <<>>]

\* readOrCreateBuildFile: the file afterwards, whether it was created, and
\* the packages read from it
readOrCreateBuildFile(file) ==
    IF file.exists
    THEN [file |-> file, created |-> FALSE, packages |-> parseBuildFilePackages(file)]
    ELSE [file |-> [exists |-> TRUE, packages |-> <<>>, ignores |-> <<>>],
          created |-> TRUE, packages |-> <<>>]

CreatedEvent(st) == IF st.created THEN <<Event("onBuildFileCreated", <<>>)>> ELSE <<>>

Ids(entries) == [i \in 1..Len(entries) |-> entries[i].id]

InList(list, x) == \E i \in 1..Len(list) : list[i] = x

DiscoverState_All(packages, catalogPackageEntries) ==
    [returned |-> TRUE,
     importedPackages |-> packages,
     catalogPackages |-> Ids(catalogPackageEntries),
     availablePackages |-> Ids(catalogPackageEntries),
     catalogPackageEntries |-> catalogPackageEntries,
     availablePackageEntries |-> catalogPackageEntries]

\* run, after the two files were read: the result it returns
DiscoverState(packages, catalogPackageEntries) ==
    [returned |-> TRUE,
     importedPackages |-> packages,
     catalogPackages |-> Ids(catalogPackageEntries),
     availablePackages |->
         Ids(SelectSeq(catalogPackageEntries, LAMBDA e : ~InList(packages, e.id))),
     catalogPackageEntries |-> catalogPackageEntries,
     availablePackageEntries |->
         SelectSeq(catalogPackageEntries, LAMBDA e : ~InList(packages, e.id))]

\* run with the catalog index read and parsed
RunWithIndex(st, idx) ==
    IF ~idx.ok
    THEN /\ discoverError' = DiscoverErrorOf("SpexCatalogDiscoverError", idx.message)
         /\ discoverResult' = NoState
    ELSE /\ discoverError' = NoServiceError
         /\ discoverResult' = DiscoverState(st.packages, idx.packages)

\* CatalogDiscoverService.run on the project build file as it is; emitted
\* holds the callbacks the call made before
RunOnState(st, emitted) ==
    /\ buildFile' = st.file
    /\ discoverEvents' = emitted \o CreatedEvent(st)
    /\ IF ~catalogIndexFile.exists
       THEN /\ discoverError' =
                   DiscoverErrorOf("SpexCatalogDiscoverError", "Missing catalog index")
            /\ discoverResult' = NoState
       ELSE RunWithIndex(st, parseCatalogIndexPackages(catalogIndexFile))

RunOn(file, emitted) == RunOnState(readOrCreateBuildFile(file), emitted)

\* what a call of the discovery service leaves alone
DiscoverFrame ==
    UNCHANGED <<parseVars, formVars, catalogIndexFile, remote, remoteVersion, mirrors,
                targets, tmpDirs, runVars, mirrorCallVars, importVars, catalogVars,
                validateVars, raceVars>>

Discover_Run ==
    /\ discoverCall' = [op |-> "run", packageId |-> <<>>, fileBefore |-> buildFile,
                        again |-> FALSE]
    /\ RunOn(buildFile, <<>>)
    /\ DiscoverFrame

\* addPackage from the build file state on: the write, the callback, run
AddToState_Always(st, packageId) ==
    RunOn([st.file EXCEPT !.packages = Append(st.packages, packageId)],
          CreatedEvent(st) \o <<Event("onPackageAdded", packageId)>>)

AddToState_Prepend(st, packageId) ==
    IF ~InList(st.packages, packageId)
    THEN RunOn([st.file EXCEPT !.packages = <<packageId>> \o st.packages],
               CreatedEvent(st) \o <<Event("onPackageAdded", packageId)>>)
    ELSE RunOn(st.file, CreatedEvent(st))

AddToState(st, packageId) ==
    IF ~InList(st.packages, packageId)
    THEN RunOn([st.file EXCEPT !.packages = Append(st.packages, packageId)],
               CreatedEvent(st) \o <<Event("onPackageAdded", packageId)>>)
    ELSE RunOn(st.file, CreatedEvent(st))

Discover_AddPackage(input) ==
    /\ discoverCall' = [op |-> "addPackage", packageId |-> input, fileBefore |-> buildFile,
                        again |-> /\ discoverCall.op = "addPackage"
                                  /\ Trim(discoverCall.packageId) = Trim(input)]
    /\ IF Trim(input) = <<>>
       THEN /\ discoverError' = DiscoverErrorOf("SpexCatalogDiscoverError",
                                                "Package ID must not be empty.")
            /\ discoverResult' = NoState
            /\ discoverEvents' = <<>>
            /\ UNCHANGED buildFile
       ELSE AddToState(readOrCreateBuildFile(buildFile), Trim(input))
    /\ DiscoverFrame

InitDiscover ==
    /\ raw = <<>>
    /\ parsed = NotParsed
    /\ catalogParsed = CatalogNotParsed
    /\ targetPath = <<>>
    /\ mirrorPath = <<>>
    /\ InitForms
    /\ buildFile \in DiscoverBuildFiles
    /\ remote = [u \in RepoUrls |-> ContentPlain]
    /\ targets = [t \in TargetPaths |-> AbsentTree]
    /\ InitRun
    /\ catalogIndexFile \in CatalogIndexFiles
    /\ discoverCall = NoDiscoverCall
    /\ discoverResult = NoState
    /\ discoverEvents = <<>>
    /\ discoverError = NoServiceError
    /\ InitNoCatalogBuild
    /\ InitNoValidate
    /\ InitNoRace

NextDiscover ==
    \/ Discover_Run
    \/ \E input \in AddInputs : Discover_AddPackage(input)

SpecDiscover == InitDiscover /\ [][NextDiscover]_vars

----------------------------------------------------------------------------
(* Properties of the discovery session                                      *)

\* the identifiers of the persisted packages list
Identifiers(file) == parseStringList(file.packages)

NoDuplicates(list) ==
    \A i, j \in 1..Len(list) : list[i] = list[j] => i = j

IsPrefix(a, b) == Len(a) <= Len(b) /\ SubSeq(b, 1, Len(a)) = a

\* position of the entry in the sequence, 0 when it is not there
PositionOf(entries, e) ==
    IF \E i \in 1..Len(entries) : entries[i] = e
    THEN CHOOSE i \in 1..Len(entries) : entries[i] = e
    ELSE 0

\* C14: the available entries of a returned discovery state are the entries
\* of the catalog index, in catalog order, without exactly those whose id is
\* in the packages list of the build file.
C14_AvailableIsCatalogMinusImported ==
    discoverResult.returned =>
        LET catalog == discoverResult.catalogPackageEntries
            available == discoverResult.availablePackageEntries
        IN  /\ catalog = parseCatalogIndexPackages(catalogIndexFile).packages
            /\ NoDuplicates(available)
            /\ \A i \in 1..Len(available) :
                   /\ PositionOf(catalog, available[i]) > 0
                   /\ ~InList(Identifiers(buildFile), available[i].id)
            /\ \A i \in 1..Len(catalog) :
                   ~InList(Identifiers(buildFile), catalog[i].id)
                       => InList(available, catalog[i])
            /\ \A i, j \in 1..Len(available) :
                   i < j => PositionOf(catalog, available[i]) < PositionOf(catalog, available[j])
            /\ discoverResult.availablePackages = Ids(available)

C14_Witness ==
    /\ discoverResult.returned
    /\ Identifiers(buildFile) = <<IdAB>>
    /\ discoverResult.catalogPackages = <<IdAB, IdCD>>
    /\ discoverResult.availablePackages = <<IdCD>>

Occurrences(list, x) == Cardinality({ i \in 1..Len(list) : list[i] = x })

\* the identifiers of the build file before the call made last
IdentifiersBefore ==
    IF discoverCall.fileBefore.exists THEN Identifiers(discoverCall.fileBefore) ELSE <<>>

\* the call made last was addPackage of a non-empty identifier
AddPackageCalled == discoverCall.op = "addPackage" /\ Trim(discoverCall.packageId) /= <<>>

AddedEvents == SelectSeq(discoverEvents, LAMBDA e : e.name = "onPackageAdded")

\* the catalog index can be read: run returns a state
IndexReadable == catalogIndexFile.exists /\ parseCatalogIndexPackages(catalogIndexFile).ok

\* C15: addPackage(id) with id already in the packages list writes nothing,
\* emits no onPackageAdded and still returns the refreshed state; with id
\* absent it appends id at the end and persists the file, also when the run
\* that follows fails; after addPackage(id), once or twice in a row, a list
\* that had no duplicates holds id exactly once.
C15_AddPackageIdempotent ==
    AddPackageCalled =>
        LET id == Trim(discoverCall.packageId)
        IN  /\ InList(IdentifiersBefore, id)
                 => /\ buildFile = discoverCall.fileBefore
                    /\ AddedEvents = <<>>
                    /\ IndexReadable
                         => /\ discoverResult.returned
                            /\ Identifiers(buildFile) = discoverResult.importedPackages
                                  \/ ~NoDuplicates(IdentifiersBefore)
            /\ ~InList(IdentifiersBefore, id)
                 => /\ buildFile.exists
                    /\ Identifiers(buildFile)[Len(Identifiers(buildFile))] = id
                    /\ NoDuplicates(IdentifiersBefore)
                         => Identifiers(buildFile) = Append(IdentifiersBefore, id)
                    /\ AddedEvents = <<Event("onPackageAdded", id)>>
                    /\ IndexReadable
                         => /\ discoverResult.returned
                            /\ discoverResult.importedPackages = Identifiers(buildFile)
            /\ NoDuplicates(IdentifiersBefore)
                 => Occurrences(Identifiers(buildFile), id) = 1

\* addPackage(c/d) twice in a row, the first call having appended it
C15_Witness ==
    /\ AddPackageCalled
    /\ discoverCall.again
    /\ Trim(discoverCall.packageId) = IdCD
    /\ Identifiers(buildFile) = <<IdAB, IdCD>>
    /\ AddedEvents = <<>>
    /\ discoverResult.returned
    /\ discoverResult.importedPackages = <<IdAB, IdCD>>

\* the identifiers a build file holds; none when there is no file
PersistedIdentifiers(file) == IF file.exists THEN Identifiers(file) ELSE <<>>

\* C16: no call of the discovery service puts an identifier twice into the
\* persisted packages list or changes the order of the identifiers in it:
\* a list without duplicates stays without duplicates and is a prefix of the
\* list after the call, and every list the service writes is without
\* duplicates and keeps the identifiers in the order of their first
\* occurrence.
C16_BuildFileInvariant ==
    [][ /\ NoDuplicates(PersistedIdentifiers(buildFile))
            => /\ NoDuplicates(PersistedIdentifiers(buildFile'))
               /\ IsPrefix(PersistedIdentifiers(buildFile),
                           PersistedIdentifiers(buildFile'))
        /\ buildFile' /= buildFile
            => /\ NoDuplicates(PersistedIdentifiers(buildFile'))
               /\ IsPrefix(uniqueStrings(PersistedIdentifiers(buildFile)),
                           PersistedIdentifiers(buildFile'))
               /\ Len(PersistedIdentifiers(buildFile'))
                     <= Len(uniqueStrings(PersistedIdentifiers(buildFile))) + 1
      ]_vars

\* e/f, appended to the list [c/d, a/b] by the call before, is added again
C16_Witness ==
    /\ discoverCall.op = "addPackage"
    /\ PersistedIdentifiers(discoverCall.fileBefore) = <<IdCD, IdAB, IdEF>>
    /\ PersistedIdentifiers(buildFile) = <<IdCD, IdAB, IdEF>>
    /\ discoverCall.again

\* the call made last went as far as readOrCreateBuildFile
BuildFileWasRead == discoverCall.op = "run" \/ AddPackageCalled

CreatedEvents == SelectSeq(discoverEvents, LAMBDA e : e.name = "onBuildFileCreated")

\* C17: a call that finds no .spex/spex.yml creates it with an empty
\* packages list, emits onBuildFileCreated and goes on (run returns a state
\* without imported packages when the catalog index can be read); a call
\* that finds the file creates nothing; without a catalog index file run
\* throws SpexCatalogDiscoverError and returns no state.
C17_SessionStart ==
    /\ BuildFileWasRead /\ ~discoverCall.fileBefore.exists
         => /\ buildFile.exists
            /\ discoverEvents /= <<>>
            /\ discoverEvents[1] = Event("onBuildFileCreated", <<>>)
            /\ Len(CreatedEvents) = 1
            /\ discoverCall.op = "run"
                 => /\ buildFile.packages = <<>>
                    /\ IndexReadable
                         => /\ discoverResult.returned
                            /\ discoverResult.importedPackages = <<>>
                            /\ discoverResult.availablePackageEntries
                                  = discoverResult.catalogPackageEntries
    /\ BuildFileWasRead /\ discoverCall.fileBefore.exists => CreatedEvents = <<>>
    /\ BuildFileWasRead /\ ~catalogIndexFile.exists
         => /\ ~discoverResult.returned
            /\ discoverResult = NoState
            /\ discoverError
                  = DiscoverErrorOf("SpexCatalogDiscoverError", "Missing catalog index")
    /\ discoverResult.returned => discoverError = NoServiceError

\* run found no build file and a catalog index of two entries
C17_Witness ==
    /\ discoverCall.op = "run"
    /\ ~discoverCall.fileBefore.exists
    /\ buildFile.exists
    /\ discoverEvents = <<Event("onBuildFileCreated", <<>>)>>
    /\ discoverResult.returned
    /\ discoverResult.availablePackages = <<IdAB, IdCD>>

----------------------------------------------------------------------------
(* CatalogBuildService: harvesting the metadata of a repository             *)

DigitString == <<"0", "1", "2", "3", "4", "5", "6", "7", "8", "9">>

\* the decimal text git prints for a number (%ct)
RECURSIVE ToDecimal(_)
ToDecimal(n) ==
    IF n < 0 THEN <<"-">> \o ToDecimal(0 - n)
    ELSE IF n < 10 THEN <<DigitString[n + 1]>>
    ELSE ToDecimal(n \div 10) \o <<DigitString[(n % 10) + 1]>>

DigitValue(c) == CHOOSE d \in 0..9 : DigitString[d + 1] = c

RECURSIVE DigitsValue(_)
DigitsValue(ds) ==
    IF ds = <<>> THEN 0
    ELSE 10 * DigitsValue(SubSeq(ds, 1, Len(ds) - 1)) + DigitValue(ds[Len(ds)])

\* the length of the longest prefix of s made of decimal digits
DigitPrefixLength(s) ==
    Cardinality({ k \in 1..Len(s) : \A i \in 1..k : s[i] \in DigitChars })

\* Number.NaN
NaN == [finite |-> FALSE, value |-> 0]

\* the digits of Number.parseInt: the longest prefix of digits, NaN without one
ParseDigits(body, negative) ==
    IF DigitPrefixLength(body) = 0 THEN NaN
    ELSE [finite |-> TRUE,
          value |-> IF negative
                    THEN 0 - DigitsValue(SubSeq(body, 1, DigitPrefixLength(body)))
                    ELSE DigitsValue(SubSeq(body, 1, DigitPrefixLength(body)))]

\* the sign of Number.parseInt
ParseSigned(t) ==
    IF t /= <<>> /\ t[1] \in {"+", "-"}
    THEN ParseDigits(Tail(t), t[1] = "-")
    ELSE ParseDigits(t, FALSE)

\* Number.parseInt(s, 10)
ParseInt(s) == ParseSigned(DropLeading(s, Whitespace))

\* the byte-order mark U+FEFF, one character
BOM == "BOM"

\* the characters the class \s of a regular expression matches
RegexSpace == Whitespace \cup {BOM}

\* the line terminators: ^ and $ of a multiline expression, and what . skips
LineTerminators == {"\n", "\r"}

AllIn(text, i, j, chars) == \A k \in i..j : text[k] \in chars

AtLineStart(text, p) == p = 1 \/ text[p - 1] \in LineTerminators

AtLineEnd(text, k) == k = Len(text) + 1 \/ text[k] \in LineTerminators

\* the first position from k on that holds no character of chars
SkipChars(text, k, chars) ==
    CHOOSE i \in k..(Len(text) + 1) :
        /\ i = Len(text) + 1 \/ text[i] \notin chars
        /\ AllIn(text, k, i - 1, chars)

\* \s*$ matches at position k
SpaceToLineEnd(text, k) ==
    \E e \in k..(Len(text) + 1) : AtLineEnd(text, e) /\ AllIn(text, k, e - 1, RegexSpace)

\* (?:\s+#*)?\s*$ matches at position k
TitleTailMatches(text, k) ==
    \/ SpaceToLineEnd(text, k)
    \/ /\ k <= Len(text)
       /\ text[k] \in RegexSpace
       /\ SpaceToLineEnd(text, SkipChars(text, SkipChars(text, k, RegexSpace), {"#"}))

\* ^\s*#\s+(.+?)(?:\s+#*)?\s*$ matched from position p: the (start, end)
\* pairs the group (.+?) can take
TitleGroups(text, p) ==
    { g \in (1..Len(text)) \X (1..Len(text)) :
        /\ AtLineStart(text, p)
        /\ SkipChars(text, p, RegexSpace) <= Len(text)
        /\ text[SkipChars(text, p, RegexSpace)] = "#"
        /\ g[1] >= SkipChars(text, p, RegexSpace) + 2
        /\ AllIn(text, SkipChars(text, p, RegexSpace) + 1, g[1] - 1, RegexSpace)
        /\ g[2] >= g[1]
        /\ \A k \in g[1]..g[2] : text[k] \notin LineTerminators
        /\ TitleTailMatches(text, g[2] + 1) }

\* the group of the match: \s+ takes as much as it can, .+? as little
TitleGroup(groups) ==
    CHOOSE g \in groups :
        \A h \in groups : h[1] < g[1] \/ (h[1] = g[1] /\ h[2] >= g[2])

\* String.prototype.match without the g flag: the leftmost match
TitleMatch(text) ==
    IF \E p \in 1..Len(text) : TitleGroups(text, p) /= {}
    THEN LET p == CHOOSE q \in 1..Len(text) :
                      /\ TitleGroups(text, q) /= {}
                      /\ \A r \in 1..(q - 1) : TitleGroups(text, r) = {}
         IN  SubSeq(text, TitleGroup(TitleGroups(text, p))[1],
                    TitleGroup(TitleGroups(text, p))[2])
    ELSE <<>>

\* String.prototype.trim, which removes the byte-order mark as well
TrimSpace(s) == DropTrailing(DropLeading(s, RegexSpace), RegexSpace)

\* extractReadmeTitle: the title, or the empty text for null
extractReadmeTitle(readmeContent) ==
    IF readmeContent /= <<>> /\ readmeContent[1] = BOM
    THEN TrimSpace(TitleMatch(Tail(readmeContent)))
    ELSE TrimSpace(TitleMatch(readmeContent))

\* git show HEAD:<readmePath>: a file of the tree of HEAD, or none
NoFile == [present |-> FALSE, text |-> <<>>]
File(text) == [present |-> TRUE, text |-> text]

ReadmeTitled == <<"#", " ", "A", "B", "\n">>
ReadmeSecond == <<"#", " ", "Z">>
ReadmeBom == <<BOM, "#", " ", "L", "o", " ", "#", "\n">>
ReadmePlain == <<"h", "i", "\n">>
ReadmeLate == <<"i", "\n", "#", "#", " ", "S", "\n", "#", " ", "L", "\n">>
ReadmeSubOnly == <<"#", "#", " ", "S", "\n">>

\* readmeCandidates
ReadmeCandidates == <<"README.md", "readme.md", "Readme.md", "README.MD">>

\* the files of the tree of HEAD under the names of ReadmeCandidates
HeadTitled == <<File(ReadmeTitled), File(ReadmeSecond), NoFile, NoFile>>
HeadLower == <<File(ReadmePlain), File(ReadmeBom), NoFile, NoFile>>
HeadUpper == <<NoFile, NoFile, NoFile, File(ReadmeLate)>>
HeadSubOnly == <<File(ReadmeSubOnly), NoFile, File(ReadmePlain), NoFile>>
HeadNone == <<NoFile, NoFile, NoFile, NoFile>>

\* a remote repository as the catalog sees it: whether git reaches it, the
\* commit times of the commits its refs reach, the commit time of HEAD, and
\* the README files of HEAD
CatalogRepo(reachable, commits, headCommit, head) ==
    [reachable |-> reachable, commits |-> commits, headCommit |-> headCommit,
     head |-> head]

CatalogRepos ==
    { CatalogRepo(TRUE, {7, 12}, 12, HeadTitled),
      CatalogRepo(TRUE, {170}, 170, HeadLower),
      CatalogRepo(TRUE, {12, 170}, 12, HeadUpper),
      CatalogRepo(TRUE, {7}, 7, HeadNone),
      CatalogRepo(TRUE, {12}, 12, HeadSubOnly),
      CatalogRepo(TRUE, {}, 0, HeadNone),
      CatalogRepo(TRUE, {0}, 0, HeadTitled),
      CatalogRepo(FALSE, {}, 0, HeadNone) }

\* an item of the packages list of the catalog specification
SpecString(text) == [kind |-> "string", text |-> text]
SpecOther == [kind |-> "other", text |-> <<>>]

ListSpecification(items) ==
    [exists |-> TRUE, isObject |-> TRUE, isList |-> TRUE, items |-> items]

CatalogSpecFiles ==
    { AbsentSpecification,
      [exists |-> TRUE, isObject |-> FALSE, isList |-> FALSE, items |-> <<>>],
      [exists |-> TRUE, isObject |-> TRUE, isList |-> FALSE, items |-> <<>>],
      ListSpecification(<<>>),
      ListSpecification(<<SpecString(Padded(IdAB))>>),
      ListSpecification(<<SpecString(IdAB), SpecString(PkgHost)>>),
      ListSpecification(<<SpecString(PkgHost), SpecString(IdAB), SpecString(PkgUrl)>>),
      ListSpecification(<<SpecString(IdAB), SpecString(IdAB)>>),
      ListSpecification(<<SpecString(IdAB), SpecOther>>),
      ListSpecification(<<SpecString(IdAB), SpecString(<<" ">>)>>),
      ListSpecification(<<SpecString(IdAB), SpecString(PkgBad)>>) }

\* the index an earlier catalog build wrote
OldIndex ==
    ListIndex(<<[kind |-> "object", id |-> IdCD, name |-> IdCD, updated |-> 7]>>)

CatalogBuildErrorOf(message) == [name |-> "SpexCatalogBuildError", message |-> message]

\* parseCatalogPackages: one turn of the loop over packagesValue
SpecItemStep(acc, item) ==
    IF item.kind /= "string"
    THEN [acc EXCEPT !.ok = FALSE,
                     !.message = "Catalog packages list must contain only string values."]
    ELSE IF Trim(item.text) = <<>>
    THEN [acc EXCEPT !.ok = FALSE,
                     !.message = "Catalog packages list must not contain empty values."]
    ELSE [acc EXCEPT !.packages =
             Append(@, [id |-> Trim(item.text), name |-> Trim(item.text), updated |-> 0])]

RECURSIVE SpecItemLoop(_, _)
SpecItemLoop(acc, items) ==
    IF items = <<>> \/ ~acc.ok THEN acc
    ELSE SpecItemLoop(SpecItemStep(acc, Head(items)), Tail(items))

parseCatalogPackages(content) ==
    IF ~content.isObject
    THEN [ok |-> FALSE, message |-> "Catalog specification must be a YAML object.",
          packages |-> <<>>]
    ELSE IF ~content.isList
    THEN [ok |-> FALSE, message |-> "Catalog specification must contain a packages list.",
          packages |-> <<>>]
    ELSE SpecItemLoop([ok |-> TRUE, message |-> "none", packages |-> <<>>], content.items)

\* the title of the candidates from position i on: the first one that can
\* be read and has a title; the empty text for null
RECURSIVE TitleFrom(_, _)
TitleFrom(head, i) ==
    IF i > Len(ReadmeCandidates) THEN <<>>
    ELSE IF head[i].present /\ extractReadmeTitle(head[i].text) /= <<>>
    THEN extractReadmeTitle(head[i].text)
    ELSE TitleFrom(head, i + 1)

tryReadRepositoryName_FirstCandidate(head) ==
    IF head[1].present THEN extractReadmeTitle(head[1].text) ELSE <<>>

tryReadRepositoryName(head) == TitleFrom(head, 1)

MaxOf(numbers) == CHOOSE n \in numbers : \A m \in numbers : m <= n

GitLogCommitTime_Head(repo) ==
    IF repo.commits = {} THEN <<>> ELSE ToDecimal(repo.headCommit) \o <<"\n">>

\* git log --all -1 --format=%ct: stdout
GitLogCommitTime(repo) ==
    IF repo.commits = {} THEN <<>> ELSE ToDecimal(MaxOf(repo.commits)) \o <<"\n">>

\* readRepositoryMetadata: Number.parseInt(stdout.trim(), 10)
UpdatedOf(repo) == ParseInt(Trim(GitLogCommitTime(repo)))

\* readRepositoryMetadata: the name, the title or else the package id
NameOf(packageId, title) == IF title /= <<>> THEN title ELSE packageId

\* CatalogBuildService.run throws
CatalogRunFails(error) ==
    /\ catalogPc' = "failed"
    /\ catalogError' = error
    /\ UNCHANGED <<catalogPackages, catalogPosition>>

\* readRepositoryMetadata in the mirror, and the assignments of the loop body
HarvestMirror(packageId, updated, title) ==
    IF ~updated.finite \/ updated.value <= 0
    THEN CatalogRunFails(CatalogBuildErrorOf("Failed to read last update time for"))
    ELSE /\ catalogPackages' =
                [catalogPackages EXCEPT ![catalogPosition] =
                    [id |-> packageId, name |-> NameOf(packageId, title),
                     updated |-> updated.value]]
         /\ catalogPosition' = catalogPosition + 1
         /\ UNCHANGED <<catalogPc, catalogError>>

\* readRepositoryMetadata from ensureCachedPackageRepositoryMirror on
HarvestRepository(packageId, parsedPackage, repo) ==
    IF ~repo.reachable
    THEN /\ CatalogRunFails(
                CatalogBuildErrorOf("Failed to fetch catalog package metadata for"))
         /\ UNCHANGED mirrors
    ELSE /\ mirrors' = [mirrors EXCEPT
                           ![getCachedPackageRepositoryMirrorPath(parsedPackage)] =
                               [state |-> "complete", origin |-> parsedPackage.cloneUrl,
                                content |-> repo]]
         /\ HarvestMirror(packageId, UpdatedOf(repo), tryReadRepositoryName(repo.head))

\* readRepositoryMetadata with the identifier parsed
HarvestParsed(packageId, parsedPackage) ==
    IF ~parsedPackage.ok
    THEN /\ CatalogRunFails(CatalogBuildErrorOf(parsedPackage.error))
         /\ UNCHANGED mirrors
    ELSE HarvestRepository(packageId, parsedPackage, remote[parsedPackage.cloneUrl])

\* what a step of the catalog build leaves alone
CatalogFrame ==
    UNCHANGED <<parseVars, formVars, buildFile, remote, remoteVersion, targets, tmpDirs,
                runVars, mirrorCallVars, importVars, catalogSpecFile,
                discoverCall, discoverResult, discoverEvents, discoverError,
                validateVars, raceVars>>

\* run, up to the for loop: the specification is read and parsed
CatalogRun_Parsed(spec) ==
    IF ~spec.ok
    THEN /\ CatalogRunFails(CatalogBuildErrorOf(spec.message))
    ELSE /\ catalogPc' = "loop"
         /\ catalogPackages' = spec.packages
         /\ catalogPosition' = 1
         /\ UNCHANGED catalogError

CatalogRun_Start ==
    /\ catalogPc = "idle"
    /\ catalogEvents' = <<"onCatalogBuildStarted", "onCatalogSpecificationReading">>
    /\ IF ~catalogSpecFile.exists
       THEN CatalogRunFails(CatalogBuildErrorOf("Missing catalog specification"))
       ELSE CatalogRun_Parsed(parseCatalogPackages(catalogSpecFile))
    /\ UNCHANGED <<harvested, mirrors, catalogIndexFile>>
    /\ CatalogFrame

\* one turn of the for loop, writing the index after every package
CatalogRun_Harvest_Incremental ==
    /\ catalogPc = "loop"
    /\ catalogPosition <= Len(catalogPackages)
    /\ harvested' = Append(harvested, catalogPackages[catalogPosition].id)
    /\ HarvestParsed(catalogPackages[catalogPosition].id,
                     parseCatalogPackageIdentifier(catalogPackages[catalogPosition].id))
    /\ catalogIndexFile' =
           ListIndex([i \in 1..(catalogPosition - 1) |->
                         [kind |-> "object", id |-> catalogPackages[i].id,
                          name |-> catalogPackages[i].name,
                          updated |-> catalogPackages[i].updated]])
    /\ UNCHANGED catalogEvents
    /\ CatalogFrame

\* run, one turn of the for loop
CatalogRun_Harvest ==
    /\ catalogPc = "loop"
    /\ catalogPosition <= Len(catalogPackages)
    /\ harvested' = Append(harvested, catalogPackages[catalogPosition].id)
    /\ HarvestParsed(catalogPackages[catalogPosition].id,
                     parseCatalogPackageIdentifier(catalogPackages[catalogPosition].id))
    /\ UNCHANGED <<catalogEvents, catalogIndexFile>>
    /\ CatalogFrame

IndexEntries_Bare(packages) ==
    [i \in 1..Len(packages) |->
        [kind |-> "string", id |-> packages[i].id, name |-> <<>>,
         updated |-> packages[i].updated]]

\* the entries stringifyYaml({ packages }) writes
IndexEntries_Reversed(packages) ==
    [i \in 1..Len(packages) |->
        [kind |-> "object", id |-> packages[Len(packages) + 1 - i].id,
         name |-> packages[Len(packages) + 1 - i].name,
         updated |-> packages[Len(packages) + 1 - i].updated]]

IndexEntries(packages) ==
    [i \in 1..Len(packages) |->
        [kind |-> "object", id |-> packages[i].id, name |-> packages[i].name,
         updated |-> packages[i].updated]]

\* run, after the for loop: the index is written
CatalogRun_Write ==
    /\ catalogPc = "loop"
    /\ catalogPosition > Len(catalogPackages)
    /\ catalogIndexFile' = ListIndex(IndexEntries(catalogPackages))
    /\ catalogEvents' = catalogEvents \o
           <<"onCatalogSpecificationRead", "onCatalogIndexWriting",
             "onCatalogIndexWritten", "onCatalogBuildFinished">>
    /\ catalogPc' = "done"
    /\ UNCHANGED <<catalogPackages, catalogPosition, catalogError, harvested, mirrors>>
    /\ CatalogFrame

InitCatalog ==
    /\ raw = <<>>
    /\ parsed = NotParsed
    /\ catalogParsed = CatalogNotParsed
    /\ targetPath = <<>>
    /\ mirrorPath = <<>>
    /\ InitForms
    /\ buildFile = [exists |-> FALSE, packages |-> <<>>, ignores |-> <<>>]
    /\ remote \in [RepoUrls -> CatalogRepos]
    /\ targets = [t \in TargetPaths |-> AbsentTree]
    /\ InitRun
    /\ catalogIndexFile \in CatalogIndexFiles \cup {OldIndex}
    /\ discoverCall = NoDiscoverCall
    /\ discoverResult = NoState
    /\ discoverEvents = <<>>
    /\ discoverError = NoServiceError
    /\ InitNoValidate
    /\ InitNoRace
    /\ catalogSpecFile \in CatalogSpecFiles
    /\ catalogPc = "idle"
    /\ catalogPackages = <<>>
    /\ catalogPosition = 1
    /\ catalogEvents = <<>>
    /\ catalogError = NoServiceError
    /\ harvested = <<>>

\* the catalog build, and a discovery session that reads the index
NextCatalog == CatalogRun_Start \/ CatalogRun_Harvest \/ CatalogRun_Write \/ Discover_Run

SpecCatalog == InitCatalog /\ [][NextCatalog]_vars

----------------------------------------------------------------------------
(* Properties of the catalog build                                          *)

\* the repository a catalog identifier names
RepositoryOf(packageId) == remote[parseCatalogPackageIdentifier(packageId).cloneUrl]

\* the entries whose metadata the loop has read
HarvestedPositions == 1..(catalogPosition - 1)

\* the loop failed in readRepositoryMetadata of a repository that the
\* identifier names and git reaches
FailedInMirror ==
    /\ catalogPc = "failed"
    /\ harvested /= <<>>
    /\ parseCatalogPackageIdentifier(harvested[Len(harvested)]).ok
    /\ RepositoryOf(harvested[Len(harvested)]).reachable

HasRecentCommit(repo) == \E c \in repo.commits : c > 0

\* this run has written no index
NoIndexWritten == catalogIndexFile \in CatalogIndexFiles \cup {OldIndex}

\* C18: updated is the commit time of the most recent commit the refs of the
\* repository reach; a repository without commits, or whose newest commit
\* time is not positive, fails the build with SpexCatalogBuildError, and no
\* entry of a written index has updated <= 0.
C18_UpdatedIsLastCommitTime ==
    /\ \A i \in HarvestedPositions :
           /\ catalogPackages[i].updated \in RepositoryOf(catalogPackages[i].id).commits
           /\ \A c \in RepositoryOf(catalogPackages[i].id).commits :
                  c <= catalogPackages[i].updated
           /\ catalogPackages[i].updated > 0
    /\ FailedInMirror
         => /\ ~HasRecentCommit(RepositoryOf(harvested[Len(harvested)]))
            /\ catalogError = CatalogBuildErrorOf("Failed to read last update time for")
    /\ catalogPc = "failed" => NoIndexWritten
    /\ catalogPc \in {"loop", "done"} /\ harvested /= <<>>
         => HasRecentCommit(RepositoryOf(harvested[Len(harvested)]))
    /\ catalogPc = "done"
         => \A i \in 1..Len(catalogIndexFile.items) : catalogIndexFile.items[i].updated > 0

\* an index entry whose updated is the time of a commit newer than HEAD
C18_Witness ==
    /\ catalogPc = "done"
    /\ \E i \in 1..Len(catalogIndexFile.items) :
           /\ catalogIndexFile.items[i].updated = 170
           /\ RepositoryOf(catalogIndexFile.items[i].id).headCommit = 12

\* a line of a README that is a level-one heading: "# " and a text
IsLevelOneHeading(line) ==
    /\ Len(line) >= 3
    /\ line[1] = "#"
    /\ line[2] = " "
    /\ Trim(SubSeq(line, 3, Len(line))) /= <<>>

\* the text of a heading line, without the closing sequence " #"
HeadingText(line) ==
    LET text == Trim(SubSeq(line, 3, Len(line)))
        open == DropTrailing(text, {"#"})
    IN  IF open /= text /\ open /= <<>> /\ open[Len(open)] = " " THEN Trim(open) ELSE text

WithoutBOM(text) == IF text /= <<>> /\ text[1] = BOM THEN Tail(text) ELSE text

\* the text of the first level-one heading of a file, the empty text when
\* the file is missing or has none
FirstHeading(file) ==
    LET lines == IF file.present THEN Split(WithoutBOM(file.text), "\n") ELSE <<>>
        headings == SelectSeq(lines, IsLevelOneHeading)
    IN  IF headings = <<>> THEN <<>> ELSE HeadingText(headings[1])

\* the candidates that yield a heading
YieldingCandidates(head) ==
    { k \in 1..Len(ReadmeCandidates) : FirstHeading(head[k]) /= <<>> }

\* the name the catalog shows for the repository
ExpectedName(packageId, head) ==
    IF YieldingCandidates(head) = {} THEN packageId
    ELSE FirstHeading(head[CHOOSE k \in YieldingCandidates(head) :
                               \A j \in YieldingCandidates(head) : k <= j])

\* C19: name is the text of the first level-one heading of the first README
\* candidate that has one, a byte-order mark at the start of the file
\* notwithstanding; without such a candidate name is the identifier, and
\* the build does not fail for it: a build that fails in the mirror fails
\* for the commit time.
C19_NameFromReadmeOrIdentifier ==
    /\ \A i \in HarvestedPositions :
           catalogPackages[i].name
               = ExpectedName(catalogPackages[i].id,
                              RepositoryOf(catalogPackages[i].id).head)
    /\ FailedInMirror => ~HasRecentCommit(RepositoryOf(harvested[Len(harvested)]))
    /\ catalogPc = "done"
         => \A i \in 1..Len(catalogIndexFile.items) : catalogIndexFile.items[i].name /= <<>>

\* one index with a name from readme.md behind a byte-order mark (README.md
\* has no heading) and a name that is the identifier (no README at all)
C19_Witness ==
    /\ catalogPc = "done"
    /\ \E i, j \in 1..Len(catalogIndexFile.items) :
           /\ catalogIndexFile.items[i].name = <<"L", "o">>
           /\ RepositoryOf(catalogIndexFile.items[i].id).head = HeadLower
           /\ catalogIndexFile.items[j].name = catalogIndexFile.items[j].id
           /\ RepositoryOf(catalogIndexFile.items[j].id).head = HeadNone

\* the identifiers of the catalog specification, trimmed
SpecificationIds ==
    [i \in 1..Len(catalogSpecFile.items) |-> Trim(catalogSpecFile.items[i].text)]

\* C20: the index a finished build wrote has one entry {id, name, updated}
\* per entry of the specification, in its order, with the trimmed string as
\* id; the metadata was read for one entry after the other in that order.
C20_IndexFollowsSpecification ==
    /\ IsPrefix(harvested, SpecificationIds)
    /\ catalogPc = "loop" => Len(harvested) = catalogPosition - 1
    /\ catalogPc = "failed" /\ harvested /= <<>> => Len(harvested) = catalogPosition
    /\ catalogPc = "done"
         => /\ harvested = SpecificationIds
            /\ catalogIndexFile.exists /\ catalogIndexFile.isList
            /\ Len(catalogIndexFile.items) = Len(catalogSpecFile.items)
            /\ \A i \in 1..Len(catalogIndexFile.items) :
                   /\ catalogIndexFile.items[i].kind = "object"
                   /\ catalogIndexFile.items[i].id = SpecificationIds[i]
                   /\ catalogIndexFile.items[i].name
                         = ExpectedName(SpecificationIds[i],
                                        RepositoryOf(SpecificationIds[i]).head)
                   /\ catalogIndexFile.items[i].updated \in
                         RepositoryOf(SpecificationIds[i]).commits
            /\ catalogEvents[Len(catalogEvents)] = "onCatalogBuildFinished"

\* three entries, two of them naming one repository, with different metadata
\* for the two repositories
C20_Witness ==
    /\ catalogPc = "done"
    /\ catalogSpecFile.items = <<SpecString(PkgHost), SpecString(IdAB), SpecString(PkgUrl)>>
    /\ Ids(catalogIndexFile.items) = <<PkgHost, IdAB, PkgUrl>>
    /\ catalogIndexFile.items[1].updated /= catalogIndexFile.items[2].updated
    /\ catalogIndexFile.items[2] = [catalogIndexFile.items[3] EXCEPT !.id = IdAB]

----------------------------------------------------------------------------
(* Properties of the catalog index between its writer and its reader        *)

\* the items of an index a reader can take: strings that are not blank, and
\* objects
UsableItems(items) ==
    SelectSeq(items, LAMBDA item : item.kind = "object" \/ Trim(item.id) /= <<>>)

ItemId(item) == Trim(item.id)

\* a string is its own name; an object without a usable name is named by
\* its id
ItemName(item) ==
    IF item.kind = "object" /\ Trim(item.name) /= <<>> THEN Trim(item.name) ELSE Trim(item.id)

\* the index holds nothing but strings and objects with an id
ReadableIndex(file) ==
    /\ file.exists
    /\ file.isList
    /\ \A i \in 1..Len(file.items) :
           \/ file.items[i].kind = "string"
           \/ file.items[i].kind = "object" /\ Trim(file.items[i].id) /= <<>>

\* entries is what the schema says a reader makes of the items
ReadAsSchema(items, entries) ==
    /\ Ids(entries) = uniqueStrings([i \in 1..Len(UsableItems(items)) |->
                                        ItemId(UsableItems(items)[i])])
    /\ \A k \in 1..Len(entries) :
           \E i \in 1..Len(UsableItems(items)) :
               /\ ItemId(UsableItems(items)[i]) = entries[k].id
               /\ \A j \in 1..(i - 1) : ItemId(UsableItems(items)[j]) /= entries[k].id
               /\ entries[k].name = ItemName(UsableItems(items)[i])

\* the entries of the finished catalog build, as {id, name}
BuiltEntries ==
    [i \in 1..Len(catalogPackages) |->
        [id |-> catalogPackages[i].id, name |-> catalogPackages[i].name]]

\* C21: a discovery run reads an index of bare strings, of objects or of
\* both as the schema says (a string s as {id: s, name: s}, an object
\* without a usable name with name = id); the index a catalog build wrote
\* holds objects {id, name, updated} only, and a run that reads it returns
\* the ids and names of the build in their order when the ids of the
\* specification are distinct.
C21_IndexSchemaCompatible ==
    /\ [][ discoverCall' /= discoverCall \/ discoverResult' /= discoverResult
             => /\ ReadableIndex(catalogIndexFile) <=> discoverResult'.returned
                /\ discoverResult'.returned
                     => ReadAsSchema(catalogIndexFile.items,
                                     discoverResult'.catalogPackageEntries)
                /\ catalogPc = "done" /\ NoDuplicates(SpecificationIds)
                     => /\ discoverResult'.returned
                        /\ discoverResult'.catalogPackageEntries = BuiltEntries
         ]_vars
    /\ [](catalogPc = "done"
            => \A i \in 1..Len(catalogIndexFile.items) :
                   /\ catalogIndexFile.items[i].kind = "object"
                   /\ DOMAIN catalogIndexFile.items[i] = {"kind", "id", "name", "updated"})

\* a discovery run has read the index of a finished build of two entries,
\* one named by its README and one by its identifier
C21_Witness ==
    /\ catalogPc = "done"
    /\ discoverResult.returned
    /\ Len(catalogPackages) = 2
    /\ discoverResult.catalogPackageEntries = BuiltEntries
    /\ \E i, j \in 1..2 :
           /\ catalogPackages[i].name = <<"L", "o">>
           /\ catalogPackages[j].name = catalogPackages[j].id

----------------------------------------------------------------------------
(* Further properties of the build pipeline                                 *)

\* the run got as far as the test for the build file
ReachedBuildFileTest == CountEvents("onAgentsFileWritten") = 1

\* C22: without .spex/spex.yml a run that passed validation ends with
\* onBuildFileMissing and onBuildFinished and an empty importedPackages
\* list, and it runs nothing of the import: no identifier is parsed, no
\* mirror call is made, no mirror, temporary directory or import target is
\* changed.
C22_NoImportWithoutBuildFile ==
    ~buildFile.exists
        => /\ parsed = NotParsed
           /\ packageIds = <<>>
           /\ importedPackages = <<>>
           /\ mirrorCall = NoCall /\ lastCall = NoCall
           /\ \A m \in MirrorPaths : mirrors[m] = AbsentMirror
           /\ tmpDirs = ForeignTmpDirs
           /\ targets = targetsAtPackageStart
           /\ CountEvents("onPackageImportStarted") = 0
           /\ ReachedBuildFileTest
                => /\ pc = "done"
                   /\ lastError = NoError
                   /\ Len(events) >= 2
                   /\ events[Len(events) - 1].name = "onBuildFileMissing"
                   /\ events[Len(events)].name = "onBuildFinished"
                   /\ CountEvents("onBuildFileDetected") = 0

\* a second run without a build file has finished; the imports directory
\* holds what it held
C22_Witness ==
    /\ ~buildFile.exists
    /\ runs = 2
    /\ pc = "done"
    /\ events[Len(events)].name = "onBuildFinished"
    /\ \E t \in TargetPaths : targets[t].files /= {}

----------------------------------------------------------------------------
(* Structure validation (DefaultValidationService)                          *)

\* the supported type directories, in the order validate visits them
supportedSpexTypes ==
    << <<"a", "d", "r">>,
       <<"i", "n", "s", "t", "r", "u", "c", "t", "i", "o", "n">>,
       <<"d", "a", "t", "a", "f", "o", "r", "m", "a", "t">>,
       <<"f", "e", "a", "t", "u", "r", "e">> >>

SpexDirName == <<"s", "p", "e", "x">>
MdSuffix == <<".", "m", "d">>

\* directory entries as readdir({withFileTypes: true}) reports them
FileEntry(name) == [name |-> name, isFile |-> TRUE]
DirEntry(name) == [name |-> name, isFile |-> FALSE]

EntryLowerMd == FileEntry(<<"a", ".", "m", "d">>)
EntryUpperMd == FileEntry(<<"A", ".", "M", "D">>)
EntryText == FileEntry(<<"n", ".", "t", "x", "t">>)
EntryMdDirectory == DirEntry(<<"x", ".", "m", "d">>)
EntryMdInside == FileEntry(<<"m", "d">>)

DirectoryOf(entries) == [kind |-> "dir", entries |-> entries]

\* what can be found at the path of a type directory
TypePathStates ==
    { AbsentEntry,
      [kind |-> "file", entries |-> {}],
      DirectoryOf({}),
      DirectoryOf({EntryLowerMd}),
      DirectoryOf({EntryUpperMd, EntryText}),
      DirectoryOf({EntryMdDirectory, EntryText, EntryMdInside}) }

TypeNames == {supportedSpexTypes[i] : i \in 1..Len(supportedSpexTypes)}

\* the project directories validate is tried on
Projects ==
    [spex : {"absent", "file", "dir"}, types : [TypeNames -> TypePathStates]]

\* directoryExists: stat().isDirectory(), false when nothing is there
directoryExists(kind) == kind = "dir"

\* the type path inside the project: nothing of it exists without spex
TypePathState(prj, type) ==
    IF directoryExists(prj.spex) THEN prj.types[type] ELSE AbsentEntry

\* mutant of MarkdownFileCount: every entry counts
MarkdownFileCount_AnyEntry(entries) == Cardinality(entries)

\* entries.filter(entry => entry.isFile() && name.toLowerCase().endsWith(".md")).length
MarkdownFileCount(entries) ==
    Cardinality({en \in entries : en.isFile /\ EndsWith(ToLower(en.name), MdSuffix)})

IssueMissingSpex == "Missing spex directory"
IssueNoTypeDirectory == "Missing supported type directory in spex"
IssueEmpty(type) == [text |-> "must not be empty", type |-> type]
IssueNoMarkdown(type) == [text |-> "must contain at least one .md file", type |-> type]

\* the existing supported type directories, in the order of supportedSpexTypes
ExistingTypeDirectories(prj) ==
    SelectSeq(supportedSpexTypes,
              LAMBDA type : directoryExists(TypePathState(prj, type).kind))

\* the issues one pass of the loop over the existing type directories adds
TypeIssues(type, entries, count) ==
    (IF Cardinality(entries) = 0 THEN <<IssueEmpty(type)>> ELSE <<>>)
        \o (IF count = 0 THEN <<IssueNoMarkdown(type)>> ELSE <<>>)

RECURSIVE ValidateTypes(_, _, _, _)
\* the for loop over existingTypeDirectories
ValidateTypes(prj, spexPath, remaining, acc) ==
    IF remaining = <<>> THEN acc
    ELSE LET type == Head(remaining)
             entries == TypePathState(prj, type).entries
             count == MarkdownFileCount(entries)
         IN ValidateTypes(prj, spexPath, Tail(remaining),
                [issues |-> acc.issues \o TypeIssues(type, entries, count),
                 validatedTypes |-> Append(acc.validatedTypes,
                     [type |-> type, path |-> Resolve(spexPath, <<type>>)]),
                 events |-> Append(acc.events,
                     [name |-> "onTypeDirectoryValidated", type |-> type,
                      count |-> count])])

\* DefaultValidationService.validate on the directory cwd holding prj
validate(cwd, prj) ==
    LET spexPath == Resolve(cwd, <<SpexDirName>>)
        started == <<[name |-> "onValidationStarted", type |-> <<>>, count |-> 0]>>
        existing == ExistingTypeDirectories(prj)
        first ==
            IF ~directoryExists(prj.spex) THEN <<IssueMissingSpex>>
            ELSE IF existing = <<>> THEN <<IssueNoTypeDirectory>>
            ELSE <<>>
        looped ==
            IF directoryExists(prj.spex)
            THEN ValidateTypes(prj, spexPath, existing,
                     [issues |-> first, validatedTypes |-> <<>>, events |-> started])
            ELSE [issues |-> first, validatedTypes |-> <<>>, events |-> started]
    IN IF looped.issues /= <<>>
       THEN [called |-> TRUE, ok |-> FALSE, error |-> "SpexValidationError",
             issues |-> looped.issues, spexPath |-> <<>>, validatedTypes |-> <<>>,
             events |-> looped.events]
       ELSE [called |-> TRUE, ok |-> TRUE, error |-> "none", issues |-> <<>>,
             spexPath |-> spexPath, validatedTypes |-> looped.validatedTypes,
             events |-> Append(looped.events,
                 [name |-> "onValidationPassed", type |-> <<>>, count |-> 0])]

\* what validate leaves alone: it only reads the project
ValidateFrame ==
    UNCHANGED <<parseVars, formVars, buildVars, discoverVars, catalogVars, raceVars,
                project>>

Validate_Run ==
    /\ ~validation.called
    /\ validation' = validate(Cwd, project)
    /\ ValidateFrame

InitValidate ==
    /\ raw = <<>>
    /\ parsed = NotParsed
    /\ catalogParsed = CatalogNotParsed
    /\ targetPath = <<>>
    /\ mirrorPath = <<>>
    /\ InitForms
    /\ buildFile = [exists |-> FALSE, packages |-> <<>>, ignores |-> <<>>]
    /\ remote = [u \in RepoUrls |-> ContentPlain]
    /\ targets = [t \in TargetPaths |-> AbsentTree]
    /\ InitRun
    /\ InitNoDiscover
    /\ InitNoCatalogBuild
    /\ InitNoRace
    /\ project \in Projects
    /\ validation = NoValidation

NextValidate == Validate_Run

SpecValidate == InitValidate /\ [][NextValidate]_vars

----------------------------------------------------------------------------
(* Properties of structure validation                                       *)

\* a markdown file directly inside the directory
HasMarkdownFile(entries) ==
    \E en \in entries :
        /\ en.isFile
        /\ Len(en.name) >= 3
        /\ ToLower(SubSeq(en.name, Len(en.name) - 2, Len(en.name))) = MdSuffix

IsTypeDirectory(type) == project.spex = "dir" /\ project.types[type].kind = "dir"

\* the structure the validation asks for
StructureValid ==
    /\ project.spex = "dir"
    /\ \E type \in TypeNames : IsTypeDirectory(type)
    /\ \A type \in TypeNames :
           IsTypeDirectory(type) => HasMarkdownFile(project.types[type].entries)

\* one {type, path} for each existing supported type directory, in the fixed
\* order adr, instruction, dataformat, feature
ExpectedValidatedTypes ==
    LET Entry(i) == [type |-> supportedSpexTypes[i],
                     path |-> Cwd \o <<SpexDirName, supportedSpexTypes[i]>>]
        present == SelectSeq(<<1, 2, 3, 4>>, LAMBDA i : IsTypeDirectory(supportedSpexTypes[i]))
    IN [k \in 1..Len(present) |-> Entry(present[k])]

----------------------------------------------------------------------------
(* Properties of the mirror cache                                           *)

\* C24: a step of the mirror call for one identifier changes no mirror but
\* the one at that identifier's path, and no mirror that exists is ever
\* removed.
C24_OtherMirrorsUntouched ==
    [][\A m \in MirrorPaths :
           /\ mirrors'[m] /= mirrors[m]
                => /\ mirrorCall /= NoCall
                   /\ mirrorCall.path = m
                   /\ m = getCachedPackageRepositoryMirrorPath(mirrorCall)
           /\ mirrors[m].state /= "absent" => mirrors'[m].state /= "absent"
      ]_vars

\* a call fetched into one mirror while the mirror of another identifier,
\* filled before the remote changed, kept its content
C24_Witness ==
    /\ lastCall.ok
    /\ lastCall.ops = <<"set-url", "fetch">>
    /\ \E m \in MirrorPaths \ {lastCall.path} :
           /\ mirrors[m].state = "complete"
           /\ mirrors[m].content /= remote[mirrors[m].origin]

\* the mirror call that ended last ended with a failure
CallEndsFailed == mirrorCall /= NoCall /\ mirrorCall' = NoCall /\ ~lastCall'.ok

\* C25: the mirror call branches on the existence of the mirror path alone:
\* absent, it runs one mirror clone of cloneUrl and neither set-url nor fetch;
\* present, it runs no clone, first set-url to the current cloneUrl and then
\* the fetch. A step that fails ends the call and the run with its error.
C25_BranchOnExistence ==
    /\ [](/\ lastCall /= NoCall
             => /\ lastCall.absentAtStart => lastCall.ops = <<"clone">>
                /\ ~lastCall.absentAtStart
                     => /\ lastCall.ops \in {<<"set-url">>, <<"set-url", "fetch">>}
                        /\ lastCall.ops = <<"set-url">> => ~lastCall.ok
          /\ mirrorCall /= NoCall
             => /\ pc \in {"mirror-clone", "set-url", "fetch"}
                /\ pc = "mirror-clone" <=> mirrorCall.absentAtStart
                /\ pc = "fetch" <=> mirrorCall.ops = <<"set-url">>
                /\ pc /= "fetch" => mirrorCall.ops = <<>>
                /\ pc = "fetch" => mirrors[mirrorCall.path].origin = mirrorCall.cloneUrl)
    /\ [][/\ mirrorCall = NoCall /\ mirrorCall' /= NoCall
             => mirrorCall'.absentAtStart = (mirrors[mirrorCall'.path].state = "absent")
          /\ CallEndsFailed
             => /\ pc' = "failed"
                /\ lastError' /= NoError
                /\ events' = events
          /\ mirrorCall /= NoCall /\ mirrorCall' = NoCall /\ lastCall'.ok
                /\ lastCall'.ops = <<"clone">>
             => mirrors'[lastCall'.path].origin = lastCall'.cloneUrl
       ]_vars

\* a call on a present mirror failed in its set-url step, after an earlier
\* call had cloned
C25_Witness ==
    /\ pc = "failed"
    /\ prevCall.ops = <<"clone">>
    /\ prevCall.ok
    /\ lastCall.ops = <<"set-url">>
    /\ ~lastCall.ok

\* C27: a mirror directory that an interrupted clone left behind counts as a
\* mirror: every later call for it takes the branch of set-url and fetch,
\* runs no clone and never removes it; a call that fails leaves it as
\* incomplete as it was.
C27_PartialMirrorIsPresent ==
    /\ [](\A m \in MirrorPaths :
              /\ mirrorCall /= NoCall /\ mirrorCall.path = m
                    /\ mirrors[m].state = "partial" /\ ~mirrorCall.absentAtStart
                 => pc \in {"set-url", "fetch"}
              /\ lastCall /= NoCall /\ lastCall.path = m /\ ~lastCall.ok
                    /\ lastCall.ops /= <<"clone">>
                 => /\ lastCall.ops \in {<<"set-url">>, <<"set-url", "fetch">>}
                    /\ mirrors[m].state /= "absent")
    /\ [][\A m \in MirrorPaths :
              mirrors[m].state = "partial"
                 => /\ mirrors'[m].state /= "absent"
                    /\ mirrorCall = NoCall /\ mirrorCall' /= NoCall /\ mirrorCall'.path = m
                         => pc' = "set-url" /\ ~mirrorCall'.absentAtStart
                    /\ pc' = "failed" => mirrors'[m] = mirrors[m]
       ]_vars

\* an interrupted clone left a directory; the next call for it ran set-url
\* and a fetch that failed, and the directory is as incomplete as before
C27_Witness ==
    /\ prevCall.ops = <<"clone">>
    /\ ~prevCall.ok
    /\ lastCall.path = prevCall.path
    /\ lastCall.ops = <<"set-url", "fetch">>
    /\ ~lastCall.ok
    /\ mirrors[lastCall.path].state = "partial"

----------------------------------------------------------------------------
(* Concurrent invocations on one mirror cache                               *)

\* two invocations of the build, each importing one package
Invocations == {"first", "second"}

\* the steps in which an invocation works on the mirror
MirrorSteps == {"mirror-clone", "set-url", "fetch"}

RacePath(p) == getCachedPackageRepositoryMirrorPath(raceRepository[p])
RaceCloneUrl(p) ==
    CloneUrlOf(raceRepository[p].host, raceRepository[p].namespace, raceRepository[p].name)

\* a mirror filled some time ago, behind its remote
StaleMirror(r) ==
    [state |-> "complete", origin |-> CloneUrlOf(r.host, r.namespace, r.name),
     content |-> ContentPyc]

\* the overlaps between two invocations on one mirror path, given their steps
OverlapsOf(steps) ==
    { kind \in {"clone-clone", "checkout-fetch", "clone-checkout"} :
        \E p, q \in Invocations :
            /\ p /= q
            /\ RacePath(p) = RacePath(q)
            /\ \/ kind = "clone-clone"
                    /\ steps[p] = "mirror-clone" /\ steps[q] = "mirror-clone"
               \/ kind = "checkout-fetch"
                    /\ steps[p] = "git-clone" /\ steps[q] = "fetch"
               \/ kind = "clone-checkout"
                    /\ steps[p] = "mirror-clone" /\ steps[q] = "git-clone" }

\* one invocation moves to the next step; the others stay where they are
RaceMove(p, step) ==
    /\ racePc' = [racePc EXCEPT ![p] = step]
    /\ raceOverlaps' = raceOverlaps \cup OverlapsOf(racePc')

RaceFrame ==
    UNCHANGED <<parseVars, formVars, buildFile, remote, remoteVersion, targets, tmpDirs,
                runVars, mirrorCallVars, importVars, discoverVars, catalogVars,
                validateVars, raceRepository>>

\* ensureCachedPackageRepositoryMirror behind a lock on the mirror path
Race_Begin_Locked(p) ==
    /\ racePc[p] \in {"idle", "done", "failed"}
    /\ \A q \in Invocations \ {p} :
           RacePath(q) = RacePath(p) => racePc[q] \notin MirrorSteps
    /\ RaceMove(p, MirrorBranch(MirrorExists(RacePath(p))))
    /\ UNCHANGED <<mirrors, raceCheckout>>
    /\ RaceFrame

\* ensureCachedPackageRepositoryMirror: mkdir of the parent and pathExists
Race_Begin(p) ==
    /\ racePc[p] \in {"idle", "done", "failed"}
    /\ RaceMove(p, MirrorBranch(MirrorExists(RacePath(p))))
    /\ UNCHANGED <<mirrors, raceCheckout>>
    /\ RaceFrame

\* git clone --mirror ends; what it leaves when another invocation wrote the
\* same directory meanwhile is any of the outcomes
Race_Clone(p, outcome) ==
    /\ racePc[p] = "mirror-clone"
    /\ \E left \in {mirrors[RacePath(p)],
                    [state |-> "partial", origin |-> RaceCloneUrl(p),
                     content |-> NoContent]} :
           mirrors' =
               CASE outcome = "ok" ->
                        [mirrors EXCEPT ![RacePath(p)] =
                            [state |-> "complete", origin |-> RaceCloneUrl(p),
                             content |-> remote[RaceCloneUrl(p)]]]
                 [] outcome = "interrupted" /\ mirrors[RacePath(p)].state = "absent" ->
                        [mirrors EXCEPT ![RacePath(p)] =
                            [state |-> "partial", origin |-> RaceCloneUrl(p),
                             content |-> NoContent]]
                 [] outcome = "interrupted" ->
                        [mirrors EXCEPT ![RacePath(p)] = left]
                 [] OTHER -> mirrors
    /\ RaceMove(p, IF outcome = "ok" THEN "git-clone" ELSE "failed")
    /\ UNCHANGED raceCheckout
    /\ RaceFrame

\* git remote set-url origin cloneUrl ends
Race_SetUrl(p, outcome) ==
    /\ racePc[p] = "set-url"
    /\ outcome \in {"ok", "failed"}
    /\ outcome = "ok" => MirrorExists(RacePath(p))
    /\ mirrors' = IF outcome = "ok"
                  THEN [mirrors EXCEPT ![RacePath(p)].origin = RaceCloneUrl(p)]
                  ELSE mirrors
    /\ RaceMove(p, IF outcome = "ok" THEN "fetch" ELSE "failed")
    /\ UNCHANGED raceCheckout
    /\ RaceFrame

\* git fetch --quiet --prune origin ends
Race_Fetch(p, outcome) ==
    /\ racePc[p] = "fetch"
    /\ outcome \in {"ok", "failed"}
    /\ outcome = "ok" => MirrorExists(RacePath(p))
    /\ mirrors' = IF outcome = "ok"
                  THEN [mirrors EXCEPT ![RacePath(p)] =
                           [state |-> "complete", origin |-> @.origin,
                            content |-> remote[@.origin]]]
                  ELSE mirrors
    /\ RaceMove(p, IF outcome = "ok" THEN "git-clone" ELSE "failed")
    /\ UNCHANGED raceCheckout
    /\ RaceFrame

\* what a checkout can read from the mirror: what the mirror holds, or what
\* an invocation fetching into it at the same time is writing
ReadableFromMirror(p) ==
    {mirrors[RacePath(p)].content}
        \cup { remote[mirrors[RacePath(q)].origin] :
                 q \in { i \in Invocations \ {p} :
                           RacePath(i) = RacePath(p) /\ racePc[i] = "fetch" } }

\* clonePackageToPath: git clone --depth 1 of the mirror ends
Race_Checkout(p, outcome) ==
    /\ racePc[p] = "git-clone"
    /\ outcome \in {"ok", "failed"}
    /\ outcome = "ok" => mirrors[RacePath(p)].state = "complete"
    /\ IF outcome = "ok"
       THEN \E content \in ReadableFromMirror(p) :
                raceCheckout' = [raceCheckout EXCEPT ![p] = content]
       ELSE UNCHANGED raceCheckout
    /\ RaceMove(p, IF outcome = "ok" THEN "done" ELSE "failed")
    /\ UNCHANGED mirrors
    /\ RaceFrame

\* the steps of one invocation
RaceStep(p) ==
    \/ Race_Begin(p)
    \/ \E outcome \in GitOutcomes :
           \/ Race_Clone(p, outcome)
           \/ Race_SetUrl(p, outcome)
           \/ Race_Fetch(p, outcome)
           \/ Race_Checkout(p, outcome)

InitRace ==
    /\ raw = <<>>
    /\ parsed = NotParsed
    /\ catalogParsed = CatalogNotParsed
    /\ targetPath = <<>>
    /\ mirrorPath = <<>>
    /\ InitForms
    /\ buildFile = [exists |-> TRUE, packages |-> <<PkgShort>>, ignores |-> <<>>]
    /\ remote = [u \in RepoUrls |-> ContentPlain]
    /\ targets = [t \in TargetPaths |-> AbsentTree]
    /\ remoteVersion = [u \in RepoUrls |-> 0]
    /\ \E present \in SUBSET Repositories :
           mirrors = [m \in MirrorPaths |->
                         IF \E r \in present : getCachedPackageRepositoryMirrorPath(r) = m
                         THEN StaleMirror(CHOOSE r \in present :
                                  getCachedPackageRepositoryMirrorPath(r) = m)
                         ELSE AbsentMirror]
    /\ tmpDirs = ForeignTmpDirs
    /\ pc = "idle"
    /\ runs = 0
    /\ packageIds = <<>>
    /\ index = 1
    /\ importedPackages = <<>>
    /\ events = <<>>
    /\ lastError = NoError
    /\ mirrorCall = NoCall
    /\ prevCall = NoCall
    /\ lastCall = NoCall
    /\ temporaryBasePath = NoTmp
    /\ checkout = NoContent
    /\ exportIgnorePatterns = <<>>
    /\ targetBefore = AbsentTree
    /\ targetsAtPackageStart = targets
    /\ thrown = NoError
    /\ InitNoDiscover
    /\ InitNoCatalogBuild
    /\ InitNoValidate
    /\ racePc = [p \in Invocations |-> "idle"]
    /\ raceRepository \in [Invocations -> Repositories]
    /\ raceCheckout = [p \in Invocations |-> NoContent]
    /\ raceOverlaps = {}

NextRace == \E p \in Invocations : RaceStep(p)

SpecRace == InitRace /\ [][NextRace]_vars

----------------------------------------------------------------------------
(* Properties of concurrent invocations                                     *)

\* C26: nothing makes an invocation wait for another one: whatever the
\* others are doing, an invocation can enter the mirror call and take its
\* next step, and the branch it takes is that of the mirror path's existence
\* at the moment of its test. So two invocations can be in the mirror clone
\* of one path at once, and one can check out a mirror another is fetching.
C26_NoMutualExclusion ==
    /\ [](\A p \in Invocations :
              /\ racePc[p] \in {"idle", "done", "failed"} => ENABLED Race_Begin(p)
              /\ ENABLED RaceStep(p))
    /\ [][\A p \in Invocations :
              racePc[p] \in {"idle", "done", "failed"} /\ racePc'[p] /= racePc[p]
                 => racePc'[p] = IF mirrors[RacePath(p)].state = "absent"
                                 THEN "mirror-clone" ELSE "set-url"
       ]_vars

\* one invocation checks out the mirror while the other fetches into it;
\* earlier both were in the mirror clone of that path at once
C26_Witness ==
    /\ RacePath("first") = RacePath("second")
    /\ racePc["first"] = "git-clone"
    /\ racePc["second"] = "fetch"
    /\ "clone-clone" \in raceOverlaps
    /\ "checkout-fetch" \in raceOverlaps

----------------------------------------------------------------------------
(* Properties of the filtered copy                                          *)

\* the path matches one of the patterns of the import
MatchesIgnorePattern(path) ==
    \E i \in 1..Len(exportIgnorePatterns) :
        MinimatchMatch(compileIgnorePatterns(exportIgnorePatterns)[i],
                       normalizeGlobPath(RelativeText(path)), FALSE)

\* neither the file nor a directory above it matches a pattern
NotIgnored(file) ==
    /\ ~MatchesIgnorePattern(file)
    /\ \A d \in Ancestors(file) : ~MatchesIgnorePattern(d)

\* C28: after an import every file of the package's spex directory that
\* matches no ignore pattern, and has no directory above it that matches
\* one, is in the copied tree; so adr/a.md is copied under the single
\* pattern **/*.pyc, and the sibling of the one file a pattern names is
\* copied too.
C28_NeverOverExcludes ==
    Copied => \A f \in checkout.spex.files : NotIgnored(f) => f \in targets[targetPath].files

----------------------------------------------------------------------------
(* Properties of a failed catalog build                                     *)

\* C29: a catalog build that fails, for a bad identifier, a mirror failure,
\* a missing commit time or a missing or malformed specification, writes no
\* index: the index file changes in the last step of a build that succeeds
\* and in no other, so after a failure it holds what it held before.
C29_FailedBuildKeepsIndex ==
    /\ [][/\ catalogPc = "failed" => catalogPc' = "failed"
          /\ catalogIndexFile' /= catalogIndexFile
               => /\ catalogPc = "loop"
                  /\ catalogPc' = "done"
                  /\ catalogPosition > Len(catalogPackages)
                  /\ catalogError' = NoServiceError
       ]_vars
    /\ [](catalogPc = "failed"
            => /\ NoIndexWritten
               /\ catalogError.name = "SpexCatalogBuildError")

\* the build failed at its second package, after the metadata of the first
\* was read; the index of an earlier build is still there
C29_Witness ==
    /\ catalogPc = "failed"
    /\ Len(harvested) = 2
    /\ catalogPackages[1].updated > 0
    /\ catalogIndexFile = OldIndex
    /\ catalogError = CatalogBuildErrorOf("Failed to read last update time for")

----------------------------------------------------------------------------
(* Properties of a failed discovery call                                    *)

\* C30: a call of the discovery service that ends in SpexCatalogDiscoverError
\* leaves the project as it found it: run has not created .spex/spex.yml and
\* addPackage has not appended the identifier.
C30_FailedDiscoveryKeepsProject ==
    discoverError.name = "SpexCatalogDiscoverError" => buildFile = discoverCall.fileBefore

====
